---- MODULE Spec2Model ----
(***************************************************************************)
(* Model of the Kubernetes job provisioner of tsuru                        *)
(* (provision/kubernetes/job.go): the lifecycle operations CreateJob,      *)
(* UpdateJob, DestroyJob and TriggerCron, run by concurrent callers that   *)
(* hold no lock and interleave at every call to the orchestrator's API.    *)
(* Each action is one orchestrator call together with the local code that  *)
(* precedes it and follows it up to the next call or the return.           *)
(***************************************************************************)
EXTENDS Integers, Sequences, FiniteSets, TLC

\* ------------------------------------------------------------------ bounds

\* Number of orchestrator objects (schedules and executions) ever created,
\* which bounds the unique identifiers handed out.
MaxUID == 3
\* Number of calls the callers make, all together.
MaxCalls == 2
\* Number of failures the collaborators inject (an unreachable cluster, a
\* failed identity provisioning or requirement resolution, a transport error).
MaxFaults == 1
\* Number of times the wall clock advances.
MaxTicks == 2
\* Wall-clock time (Unix seconds) of the initial state.
StartTime == 119

Callers == {"c1", "c2"}
Pools == {"p1", "p2"}
JobNames == {"mailer", "foo"}
\* A Go pointer or optional value: <<>> is nil, <<v>> points at v.
Nil == <<>>
Ptr(v) == <<v>>

SecondsPerMinute == 60

\* Clock advances: one second, or a minute.
TickSteps == {1, SecondsPerMinute}

\* ------------------------------------------------------------------ errors

ErrCluster == "cluster for pool: not found"
ErrIdentity == "service account: provisioning failed"
ErrRequirements == "resource requirements: invalid"
ErrAlreadyExists == "AlreadyExists"
ErrNotFound == "NotFound"
ErrTransport == "transport failure"

\* ------------------------------------------------------------------ inputs

ManualAnnotation == "cronjob.kubernetes.io/instantiate"
LabelJobName == "tsuru.io/job-name"
LabelJobPool == "tsuru.io/job-pool"
LabelIsTsuru == "tsuru.io/is-tsuru"

KV(k, v) == [Name |-> k, Value |-> v]

\* A jobTypes.Job as the platform hands it to the provisioner.
MkJob(name, pool, schedule, manual, deadline, mirror, labels, annotations) ==
  [Name |-> name, Pool |-> pool, Schedule |-> schedule, Manual |-> manual,
   ActiveDeadlineSeconds |-> deadline,
   Parallelism |-> 1, Completions |-> 1, BackoffLimit |-> 2,
   Envs |-> <<KV("PRICE", <<"$", "5">>)>>,
   ServiceEnvs |-> <<KV("DB", <<"h">>)>>,
   InternalRegistryImage |-> mirror,
   OriginalImageSrc |-> "docker.io/img",
   Command |-> <<"run">>,
   Labels |-> labels, Annotations |-> annotations]

Jobs ==
  { MkJob("mailer", "p1", "*/5 * * * *", FALSE, Nil, "",
          <<KV("team", "x")>>, <<>>),
    MkJob("mailer", "p1", "*/5 * * * *", TRUE, Ptr(0), "registry.local/img",
          <<>>, <<KV("note", "a")>>),
    MkJob("mailer", "p1", "@daily", FALSE, Ptr(120), "",
          <<KV(LabelJobName, "evil")>>, <<KV(ManualAnnotation, "auto")>>),
    MkJob("foo", "p2", "@daily", TRUE, Nil, "", <<>>, <<>>) }

\* ------------------------------------------------------------ collaborators

\* client.PoolNamespace: the namespace of a pool, one per pool.
PoolNamespace(pool) == <<"tsuru", pool>>

Namespaces == {PoolNamespace(p) : p \in Pools}

\* serviceAccountNameForJob: the identity's name, fixed by the job's name.
serviceAccountNameForJob(job) == <<"job", job.Name>>

\* provision.JobLabels(ctx, job).ToLabels(): the platform-owned labels.
JobLabels(job) ==
  (LabelIsTsuru :> "true") @@ (LabelJobName :> job.Name) @@ (LabelJobPool :> job.Pool)

\* The limits resourceRequirements resolves when it succeeds.
Requirements == [cpu |-> "100m", memory |-> "64Mi"]

\* m[k] = v in a Go map.
MapPut(m, k, v) == [x \in DOMAIN m \cup {k} |-> IF x = k THEN v ELSE m[x]]

EmptyMap == [x \in {} |-> ""]

\* ------------------------------------------------------------ spec compiler

DefaultActiveDeadline == 3600
TTLSecondsAfterFinished == 86400

\* strings.Replace(value, "$", "$$", 1): the first "$" only.
RECURSIVE ReplaceAllDollar_First(_)
ReplaceAllDollar_First(value) ==
  IF value = <<>> THEN <<>>
  ELSE IF Head(value) = "$" THEN <<"$", "$">> \o Tail(value)
  ELSE <<Head(value)>> \o ReplaceAllDollar_First(Tail(value))

\* strings.ReplaceAll(value, "$", "$$") on a string given as its characters.
RECURSIVE ReplaceAllDollar(_)
ReplaceAllDollar(value) ==
  IF value = <<>> THEN <<>>
  ELSE (IF Head(value) = "$" THEN <<"$", "$">> ELSE <<Head(value)>>)
       \o ReplaceAllDollar(Tail(value))

EscapeEnvs(envs) ==
  [i \in 1..Len(envs) |-> [Name |-> envs[i].Name, Value |-> ReplaceAllDollar(envs[i].Value)]]

\* buildActiveDeadline that defaults a nil deadline only.
buildActiveDeadline_NilOnly(activeDeadlineSeconds) ==
  IF activeDeadlineSeconds = Nil THEN Ptr(DefaultActiveDeadline) ELSE activeDeadlineSeconds

buildActiveDeadline(activeDeadlineSeconds) ==
  IF activeDeadlineSeconds = Nil \/ activeDeadlineSeconds = Ptr(0)
  THEN Ptr(DefaultActiveDeadline)
  ELSE activeDeadlineSeconds

\* buildJobSpec once resourceRequirements has returned `requirements`.
buildJobSpec(job, requirements, labels, annotations) ==
  LET imageURL == IF job.InternalRegistryImage = ""
                  THEN job.OriginalImageSrc
                  ELSE job.InternalRegistryImage
  IN [Parallelism |-> job.Parallelism,
      BackoffLimit |-> job.BackoffLimit,
      Completions |-> job.Completions,
      ActiveDeadlineSeconds |-> buildActiveDeadline(job.ActiveDeadlineSeconds),
      TTLSecondsAfterFinished |-> Ptr(TTLSecondsAfterFinished),
      Template |->
        [Labels |-> labels,
         Annotations |-> annotations,
         RestartPolicy |-> "OnFailure",
         Containers |-> << [Name |-> "job",
                            Image |-> imageURL,
                            Command |-> job.Command,
                            Resources |-> requirements,
                            Env |-> EscapeEnvs(job.Envs) \o EscapeEnvs(job.ServiceEnvs)] >>,
         ServiceAccountName |-> serviceAccountNameForJob(job)]]

\* ---------------------------------------------------------- metadata builder

\* MergeLabels in which a custom label replaces the label of the same key.
RECURSIVE MergeLabels_Overwrite(_, _)
MergeLabels_Overwrite(jobLabels, custom) ==
  IF custom = <<>> THEN jobLabels
  ELSE MergeLabels_Overwrite(MapPut(jobLabels, Head(custom).Name, Head(custom).Value),
                             Tail(custom))

\* The loop over customData.Labels: a key already present is skipped.
RECURSIVE MergeLabels(_, _)
MergeLabels(jobLabels, custom) ==
  IF custom = <<>> THEN jobLabels
  ELSE LET label == Head(custom)
       IN IF label.Name \in DOMAIN jobLabels
          THEN MergeLabels(jobLabels, Tail(custom))
          ELSE MergeLabels(MapPut(jobLabels, label.Name, label.Value), Tail(custom))

\* The loop over job.Metadata.Annotations: every entry is stored.
RECURSIVE CopyAnnotations(_, _)
CopyAnnotations(jobAnnotations, custom) ==
  IF custom = <<>> THEN jobAnnotations
  ELSE CopyAnnotations(MapPut(jobAnnotations, Head(custom).Name, Head(custom).Value),
                       Tail(custom))

buildMetadataLabels(job) == MergeLabels(JobLabels(job), job.Labels)

buildMetadataAnnotations(job) == CopyAnnotations(EmptyMap, job.Annotations)

\* buildCronjob with every schedule put in the namespace of pool "p1".
buildCronjob_OneNamespace(job, jobSpec, labels, annotations) ==
  [Name |-> job.Name,
   Namespace |-> PoolNamespace("p1"),
   Labels |-> labels,
   Annotations |-> annotations,
   Schedule |-> job.Schedule,
   Suspend |-> job.Manual,
   JobTemplate |-> jobSpec]

\* The batchv1.CronJob object buildCronjob submits to CronJobs.Create.
buildCronjob(job, jobSpec, labels, annotations) ==
  [Name |-> job.Name,
   Namespace |-> PoolNamespace(job.Pool),
   Labels |-> labels,
   Annotations |-> annotations,
   Schedule |-> job.Schedule,
   Suspend |-> job.Manual,
   JobTemplate |-> jobSpec]

\* UpdateJobObject that never suspends.
UpdateJobObject_NoSuspend(job, jobSpec, labels, annotations) ==
  [Name |-> job.Name,
   Namespace |-> PoolNamespace(job.Pool),
   Labels |-> labels,
   Annotations |-> annotations,
   Schedule |-> job.Schedule,
   Suspend |-> FALSE,
   JobTemplate |-> jobSpec]

\* UpdateJobObject that leaves the annotations out.
UpdateJobObject_NoAnnotations(job, jobSpec, labels, annotations) ==
  [Name |-> job.Name,
   Namespace |-> PoolNamespace(job.Pool),
   Labels |-> labels,
   Annotations |-> EmptyMap,
   Schedule |-> job.Schedule,
   Suspend |-> job.Manual,
   JobTemplate |-> jobSpec]

\* The batchv1.CronJob object UpdateJob submits to CronJobs.Update.
UpdateJobObject(job, jobSpec, labels, annotations) ==
  [Name |-> job.Name,
   Namespace |-> PoolNamespace(job.Pool),
   Labels |-> labels,
   Annotations |-> annotations,
   Schedule |-> job.Schedule,
   Suspend |-> job.Manual,
   JobTemplate |-> jobSpec]

\* getManualJobName that names the second, not the minute.
getManualJobName_Seconds(job, unix) == <<job, "manual-job", unix>>

\* getManualJobName at wall-clock time `unix`: "<job>-manual-job-<unix/60>".
getManualJobName(job, unix) == <<job, "manual-job", unix \div SecondsPerMinute>>

\* -------------------------------------------------------------------- state

VARIABLES
  cronjobs,         \* the schedule resources the orchestrator holds
  jobs,             \* the executions the orchestrator holds
  serviceAccounts,  \* the identity objects the orchestrator holds
  nextUID,          \* the next unique identifier the orchestrator hands out
  now,              \* the wall clock, in Unix seconds
  ticks,            \* how often the clock has advanced
  pc,               \* where each caller is in its call
  op,               \* the operation each caller is in, or returned from last
  arg,              \* the argument of that call
  cron,             \* TriggerCron: the schedule it fetched
  cronChild,        \* TriggerCron: the execution it built
  scheduledTime,    \* TriggerCron: the clock value getManualJobName read
  nameFree,         \* TriggerCron: whether no execution had that name when it was built
  err,              \* the error the last call returned ("" is nil)
  ret,              \* the name the last CreateJob returned
  log,              \* the orchestrator calls the call has made, in order
  calls,            \* how many calls have been started
  faults,           \* how many failures the collaborators have injected
  lastWrite,        \* per schedule key, the Job of the last successful CreateJob or UpdateJob
  pods,             \* the execution pods the orchestrator holds
  changes,          \* how often the orchestrator's controllers have changed an execution or a pod
  unitsPc,          \* JobUnits: where the call is
  unitsJob,         \* JobUnits: the Job it was called with
  k8sJobs,          \* JobUnits: the executions Jobs.List returned
  units,            \* jobsToJobUnits: the units built so far
  unitsRet,         \* JobUnits: the unit list it returned (<<>> is nil)
  unitsErr,         \* JobUnits: the error it returned ("" is nil)
  audit,            \* the audit events marked done, in order
  stream,           \* how many orchestrator events the event bridge has been handed
  lastEvent,        \* the execution and the event createJobEvent was last called with
  compileJob,       \* spec compiler: the Job handed to buildJobSpec
  compiled,         \* spec compiler: the specs buildJobSpec has returned for it, in order
  evtCh,            \* webhook service: the buffered channel of event ids
  quitCh,           \* webhook service: the quit channel, "open" or "closed"
  doneCh,           \* webhook service: the done channel, "open" or "closed"
  runPc,            \* webhook run loop: where it is
  evtID,            \* webhook run loop: the event id it received last
  handled,          \* webhook run loop: what handleEvent has done, event by event
  webhooksQueue,    \* webhook service: the gauge of queued events
  shutdownPc,       \* webhook Shutdown: where the call is
  shutdownErr,      \* webhook Shutdown: the error it returned ("" is nil)
  ctxDone,          \* webhook Shutdown: whether the caller's context has ended
  notifyPc,         \* webhook Notify: where each notifier is
  notifyEvt,        \* webhook Notify: the event id each notifier passed last
  notified,         \* webhook Notify: how many calls have been started
  hooks,            \* webhook handleEvent: the hooks FindByEvent returned for the event
  hookCalls,        \* webhook handleEvent: the doHook calls made, in order
  errorLog          \* webhook service: the lines written with log.Errorf, in order

cluster == <<cronjobs, jobs, serviceAccounts, nextUID>>
clock == <<now, ticks>>
locals == <<cron, cronChild, scheduledTime, nameFree>>
workloads == <<pods, changes>>
reconciler == <<unitsPc, unitsJob, k8sJobs, units, unitsRet, unitsErr>>
bridge == <<audit, stream, lastEvent>>
compiler == <<compileJob, compiled>>
delivery == <<hooks, hookCalls, errorLog>>
webhook == <<evtCh, quitCh, doneCh, runPc, evtID, handled, webhooksQueue,
             shutdownPc, shutdownErr, ctxDone, notifyPc, notifyEvt, notified,
             hooks, hookCalls, errorLog>>
vars == <<cronjobs, jobs, serviceAccounts, nextUID, now, ticks,
          pc, op, arg, cron, cronChild, scheduledTime, nameFree,
          err, ret, log, calls, faults, lastWrite,
          pods, changes, unitsPc, unitsJob, k8sJobs, units, unitsRet, unitsErr,
          audit, stream, lastEvent, compileJob, compiled,
          evtCh, quitCh, doneCh, runPc, evtID, handled, webhooksQueue,
          shutdownPc, shutdownErr, ctxDone, notifyPc, notifyEvt, notified,
          hooks, hookCalls, errorLog>>

Key(ns, name) == <<ns, name>>
Keys == {Key(ns, n) : ns \in Namespaces, n \in JobNames}

TriggerArgs == {[Name |-> j.Name, Pool |-> j.Pool] : j \in Jobs}

\* DestroyJob reads the name and the pool of its Job and nothing else: one Job
\* for each name and pool stands for all.
DestroyArgs == {j \in Jobs : j.ActiveDeadlineSeconds = Nil}

JobStatusZero == [Failed |-> 0, Succeeded |-> 0]

\* The execution the orchestrator holds once Jobs.Create has accepted `obj` at
\* time `at`: it has an identifier, a creation time and counters at zero.
CreatedJob(obj, uid, at) ==
  [x \in DOMAIN obj \cup {"UID", "CreationTimestamp", "Status"} |->
     IF x = "UID" THEN uid
     ELSE IF x = "CreationTimestamp" THEN at
     ELSE IF x = "Status" THEN JobStatusZero
     ELSE obj[x]]

WithUID(obj, uid) == [x \in DOMAIN obj \cup {"UID"} |-> IF x = "UID" THEN uid ELSE obj[x]]

\* The schedule resource a successful CreateJob(job) leaves in a cluster that
\* held none, and its identity object.
CreatedCronJob(job, uid) ==
  WithUID(buildCronjob(job,
                       buildJobSpec(job, Requirements, buildMetadataLabels(job),
                                    buildMetadataAnnotations(job)),
                       buildMetadataLabels(job), buildMetadataAnnotations(job)),
          uid)

CreatedServiceAccount(job) ==
  [Name |-> serviceAccountNameForJob(job), Namespace |-> PoolNamespace(job.Pool)]

Notifiers == {"n1", "n2"}

\* No Job has been handed to the spec compiler.
CompilerIdle ==
  /\ compileJob = Nil
  /\ compiled = <<>>

\* The webhook service as WebhookService() leaves it, with `backlog` the event
\* ids enqueued since: the channels are open, the run loop is at its select,
\* no Shutdown and no Notify is in progress.
WebhookService(backlog) ==
  /\ evtCh = backlog
  /\ quitCh = "open"
  /\ doneCh = "open"
  /\ runPc = "select"
  /\ evtID = Nil
  /\ handled = <<>>
  /\ webhooksQueue = Len(backlog)
  /\ shutdownPc = "idle"
  /\ shutdownErr = ""
  /\ ctxDone = FALSE
  /\ notifyPc = [n \in Notifiers |-> "idle"]
  /\ notifyEvt = [n \in Notifiers |-> Nil]
  /\ notified = 0
  /\ hooks = <<>>
  /\ hookCalls = <<>>
  /\ errorLog = <<>>

\* The system starts with an empty cluster, or with the cluster as one
\* successful CreateJob, of one Job for each name and pool, has left it; no
\* call is in flight.
Init ==
  /\ \E seed \in {Nil} \cup {Ptr(j) : j \in DestroyArgs} :
       /\ cronjobs = {CreatedCronJob(seed[i], 1) : i \in DOMAIN seed}
       /\ serviceAccounts = {CreatedServiceAccount(seed[i]) : i \in DOMAIN seed}
       /\ nextUID = 1 + Len(seed)
       /\ lastWrite = [k \in Keys |->
             IF \E i \in DOMAIN seed : k = Key(PoolNamespace(seed[i].Pool), seed[i].Name)
             THEN seed ELSE Nil]
  /\ jobs = {}
  /\ now = StartTime
  /\ ticks = 0
  /\ pc = [c \in Callers |-> "idle"]
  /\ op = [c \in Callers |-> "none"]
  /\ arg = [c \in Callers |-> Nil]
  /\ cron = [c \in Callers |-> Nil]
  /\ cronChild = [c \in Callers |-> Nil]
  /\ scheduledTime = [c \in Callers |-> Nil]
  /\ nameFree = [c \in Callers |-> Nil]
  /\ err = [c \in Callers |-> ""]
  /\ ret = [c \in Callers |-> ""]
  /\ log = [c \in Callers |-> <<>>]
  /\ calls = 0
  /\ faults = 0
  /\ pods = {}
  /\ changes = 0
  /\ unitsPc = "idle"
  /\ unitsJob = Nil
  /\ k8sJobs = <<>>
  /\ units = <<>>
  /\ unitsRet = <<>>
  /\ unitsErr = ""
  /\ audit = <<>>
  /\ stream = 0
  /\ lastEvent = Nil
  /\ CompilerIdle
  /\ WebhookService(<<>>)

\* ------------------------------------------------ the orchestrator's contract

CronJobsGet(ns, name) == {cj \in cronjobs : cj.Namespace = ns /\ cj.Name = name}

JobsGet(ns, name) == {j \in jobs : j.Namespace = ns /\ j.Name = name}

ServiceAccountsGet(ns, name) ==
  {sa \in serviceAccounts : sa.Namespace = ns /\ sa.Name = name}

\* What a caller keeps of a call (its argument, locals, results and the calls it
\* made) stays readable after the call has returned, until the next call of any
\* caller starts. Set gives caller c the value v; when c is starting a call
\* (it is idle), the callers that are idle too are given `blank`.
Set(f, c, v, blank) ==
  [d \in Callers |-> IF d = c THEN v
                     ELSE IF pc[c] = "idle" /\ pc[d] = "idle" THEN blank
                     ELSE f[d]]

\* The callers are interchangeable: a new call is taken by "c1" when it is
\* idle, and by "c2" when "c1" is in a call.
FirstIdle(c) == c = "c1" \/ pc["c1"] # "idle"

\* A new call starts.
Begin(c, operation, a) ==
  /\ pc[c] = "idle"
  /\ FirstIdle(c)
  /\ calls < MaxCalls
  /\ calls' = calls + 1
  /\ op' = Set(op, c, operation, "none")
  /\ arg' = Set(arg, c, Ptr(a), Nil)
  /\ cronChild' = Set(cronChild, c, Nil, Nil)
  /\ scheduledTime' = Set(scheduledTime, c, Nil, Nil)
  /\ nameFree' = Set(nameFree, c, Nil, Nil)

NoFetch(c) == cron' = Set(cron, c, Nil, Nil)

\* What an operation returns when clusterForPool has failed with `e`, wrapped.
clusterForPoolFailed_Wrapped(e) == "job: " \o e

\* What an operation returns when clusterForPool has failed with `e`.
clusterForPoolFailed(e) == e

\* The errors the collaborators inject, which the fault budget counts.
InjectedErrs == {ErrCluster, ErrIdentity, ErrRequirements, ErrTransport}

Injected(c) ==
  /\ faults' = IF err'[c] \in InjectedErrs THEN faults + 1 ELSE faults
  /\ faults' <= MaxFaults

\* The call returns `e` (and, for CreateJob, the name `name`).
Return(c, e, name) ==
  /\ pc' = [pc EXCEPT ![c] = "idle"]
  /\ err' = Set(err, c, e, "")
  /\ ret' = Set(ret, c, name, "")

Goto(c, label) ==
  /\ pc' = [pc EXCEPT ![c] = label]
  /\ err' = Set(err, c, "", "")
  /\ ret' = Set(ret, c, "", "")

\* One orchestrator call and the error it returned.
Call(name, e) == [call |-> name, err |-> e]

Logged(c, made) == log' = Set(log, c, made, <<>>)

\* ------------------------------------------------------------------- clock

\* Time passes. The clock is read in one place only (getManualJobName, in
\* TriggerCronBuild), so time that passes at any other moment is time that
\* passes just before the next read: the clock advances while a caller is there.
Tick ==
  /\ ticks < MaxTicks
  /\ \E c \in Callers : pc[c] = "TriggerCron_build"
  /\ \E d \in TickSteps : now' = now + d
  /\ ticks' = ticks + 1
  /\ UNCHANGED <<cluster, pc, op, arg, locals, err, ret, log, calls, faults, lastWrite,
                 workloads, reconciler, bridge, compiler, webhook>>

\* --------------------------------------------------------- lifecycle manager

\* clusterForPool and ensureServiceAccountForJob, the first steps of CreateJob
\* and of UpdateJob; on success the call goes on at `next`.
\* AfterEnsureServiceAccount that goes on whatever the provisioning returned.
AfterEnsureServiceAccount_Ignored(c, e, next) == Goto(c, next)

\* `if err = ensureServiceAccountForJob(...); err != nil { return err }`.
AfterEnsureServiceAccount(c, e, next) ==
  IF e # "" THEN Return(c, e, "") ELSE Goto(c, next)

ensureServiceAccountForJob(c, operation, job, next) ==
  LET ns == PoolNamespace(job.Pool)
      sa == [Name |-> serviceAccountNameForJob(job), Namespace |-> ns]
  IN /\ Begin(c, operation, job)
     /\ NoFetch(c)
     /\ UNCHANGED <<cronjobs, jobs, nextUID, clock, lastWrite, workloads, reconciler, bridge, compiler, webhook>>
     /\ \/ /\ Return(c, clusterForPoolFailed(ErrCluster), "")
           /\ Logged(c, <<>>)
           /\ UNCHANGED serviceAccounts
        \/ /\ AfterEnsureServiceAccount(c, ErrIdentity, next)
           /\ Logged(c, <<Call("ensureServiceAccount", ErrIdentity)>>)
           /\ UNCHANGED serviceAccounts
        \/ /\ serviceAccounts' = serviceAccounts \cup {sa}
           /\ Logged(c, <<Call("ensureServiceAccount", "")>>)
           /\ AfterEnsureServiceAccount(c, "", next)
     /\ Injected(c)

CreateJob(c, job) == ensureServiceAccountForJob(c, "CreateJob", job, "CreateJob_submit")

\* buildJobSpecFails with the error looked at after the schedule was submitted.
buildJobSpecFails_Late(c) ==
  /\ Return(c, ErrRequirements, "")
  /\ Logged(c, Append(log[c], Call("CronJobs.Create", ErrRequirements)))
  /\ UNCHANGED <<cluster, lastWrite>>

\* `jobSpec, err := buildJobSpec(...); if err != nil { return err }` when
\* resourceRequirements fails: the call returns before the schedule is submitted.
buildJobSpecFails(c) ==
  /\ Return(c, ErrRequirements, "")
  /\ UNCHANGED <<cluster, log, lastWrite>>

\* buildCronjobReturn that takes an existing schedule for a success.
buildCronjobReturn_Idempotent(e, name) ==
  IF e # "" /\ e # ErrAlreadyExists THEN <<"", e>> ELSE <<name, "">>

\* What buildCronjob, and so CreateJob, returns: <<name, error>>, given the
\* error of CronJobs.Create and the name of the object it returned.
buildCronjobReturn(e, name) == IF e # "" THEN <<"", e>> ELSE <<name, "">>

\* CreateJob from buildMetadata on: buildJobSpec, then buildCronjob.
CreateJobSubmit(c) ==
  /\ pc[c] = "CreateJob_submit"
  /\ LET job == arg[c][1]
         jobLabels == buildMetadataLabels(job)
         jobAnnotations == buildMetadataAnnotations(job)
         jobSpec == buildJobSpec(job, Requirements, jobLabels, jobAnnotations)
         obj == buildCronjob(job, jobSpec, jobLabels, jobAnnotations)
         Reply(e) == /\ Return(c, buildCronjobReturn(e, obj.Name)[2],
                                  buildCronjobReturn(e, obj.Name)[1])
                     /\ Logged(c, Append(log[c], Call("CronJobs.Create", e)))
     IN \/ buildJobSpecFails(c)
        \/ /\ CronJobsGet(obj.Namespace, obj.Name) # {}
           /\ Reply(ErrAlreadyExists)
           /\ UNCHANGED <<cluster, lastWrite>>
        \/ /\ Reply(ErrTransport)
           /\ UNCHANGED <<cluster, lastWrite>>
        \/ /\ CronJobsGet(obj.Namespace, obj.Name) = {}
           /\ nextUID <= MaxUID
           /\ cronjobs' = cronjobs \cup {WithUID(obj, nextUID)}
           /\ nextUID' = nextUID + 1
           /\ Reply("")
           /\ lastWrite' = [lastWrite EXCEPT ![Key(PoolNamespace(job.Pool), job.Name)] = Ptr(job)]
           /\ UNCHANGED <<jobs, serviceAccounts>>
  /\ Injected(c)
  /\ UNCHANGED <<clock, op, arg, locals, calls, workloads, reconciler, bridge, compiler, webhook>>

UpdateJob(c, job) == ensureServiceAccountForJob(c, "UpdateJob", job, "UpdateJob_submit")

\* UpdateJobResult that takes a missing schedule for a success.
UpdateJobResult_Masked(e) == IF e = ErrNotFound THEN "" ELSE e

\* What UpdateJob returns given the error of CronJobs.Update.
UpdateJobResult(e) == e

\* UpdateJob from buildMetadata on: buildJobSpec, then CronJobs.Update.
UpdateJobSubmit(c) ==
  /\ pc[c] = "UpdateJob_submit"
  /\ LET job == arg[c][1]
         jobLabels == buildMetadataLabels(job)
         jobAnnotations == buildMetadataAnnotations(job)
         jobSpec == buildJobSpec(job, Requirements, jobLabels, jobAnnotations)
         obj == UpdateJobObject(job, jobSpec, jobLabels, jobAnnotations)
         old == CronJobsGet(obj.Namespace, obj.Name)
         Reply(e) == /\ Return(c, UpdateJobResult(e), "")
                     /\ Logged(c, Append(log[c], Call("CronJobs.Update", e)))
     IN \/ buildJobSpecFails(c)
        \/ /\ old = {}
           /\ Reply(ErrNotFound)
           /\ UNCHANGED <<cluster, lastWrite>>
        \/ /\ Reply(ErrTransport)
           /\ UNCHANGED <<cluster, lastWrite>>
        \/ /\ old # {}
           /\ cronjobs' = (cronjobs \ old) \cup {WithUID(obj, cj.UID) : cj \in old}
           /\ Reply("")
           /\ lastWrite' = [lastWrite EXCEPT ![Key(PoolNamespace(job.Pool), job.Name)] = Ptr(job)]
           /\ UNCHANGED <<jobs, serviceAccounts, nextUID>>
  /\ Injected(c)
  /\ UNCHANGED <<clock, op, arg, locals, calls, workloads, reconciler, bridge, compiler, webhook>>

\* k8sErrors.IsNotFound(err) on the identity delete's error.
IsNotFound(e) == e = ErrNotFound

\* DestroyJobAfterIdentityDelete that returns a not-found like any other error.
DestroyJobAfterIdentityDelete_Strict(c, e) ==
  IF e # "" THEN Return(c, e, "") ELSE Goto(c, "DestroyJob_cronjob")

\* DestroyJob up to the identity delete; `e` is what ServiceAccounts.Delete returned.
DestroyJobAfterIdentityDelete(c, e) ==
  IF e # "" /\ ~IsNotFound(e)
  THEN Return(c, e, "")
  ELSE Goto(c, "DestroyJob_cronjob")

DestroyJob(c, job) ==
  LET ns == PoolNamespace(job.Pool)
      sa == ServiceAccountsGet(ns, serviceAccountNameForJob(job))
  IN /\ Begin(c, "DestroyJob", job)
     /\ NoFetch(c)
     /\ UNCHANGED <<cronjobs, jobs, nextUID, clock, lastWrite, workloads, reconciler, bridge, compiler, webhook>>
     /\ \/ /\ Return(c, clusterForPoolFailed(ErrCluster), "")
           /\ Logged(c, <<>>)
           /\ UNCHANGED serviceAccounts
        \/ /\ sa = {}
           /\ Logged(c, <<Call("ServiceAccounts.Delete", ErrNotFound)>>)
           /\ DestroyJobAfterIdentityDelete(c, ErrNotFound)
           /\ UNCHANGED serviceAccounts
        \/ /\ Logged(c, <<Call("ServiceAccounts.Delete", ErrTransport)>>)
           /\ DestroyJobAfterIdentityDelete(c, ErrTransport)
           /\ UNCHANGED serviceAccounts
        \/ /\ sa # {}
           /\ serviceAccounts' = serviceAccounts \ sa
           /\ Logged(c, <<Call("ServiceAccounts.Delete", "")>>)
           /\ DestroyJobAfterIdentityDelete(c, "")
     /\ Injected(c)

\* DestroyJobResult that takes a schedule that is not found for deleted.
DestroyJobResult_Tolerant(e) == IF IsNotFound(e) THEN "" ELSE e

\* What DestroyJob returns given the error of CronJobs.Delete.
DestroyJobResult(e) == e

\* DestroyJobExecutions that deletes the executions of the deleted schedules.
DestroyJobExecutions_Cascade(executions, deleted) ==
  {j \in executions :
     \A cj \in deleted, i \in DOMAIN j.OwnerReferences : j.OwnerReferences[i].UID # cj.UID}

\* The executions DestroyJob leaves when it has deleted the schedules
\* `deleted`: it lists none and deletes none.
DestroyJobExecutions(executions, deleted) == executions

\* DestroyJob's last line: CronJobs.Delete, whose error is the call's.
DestroyJobCronDelete(c) ==
  /\ pc[c] = "DestroyJob_cronjob"
  /\ LET job == arg[c][1]
         ns == PoolNamespace(job.Pool)
         old == CronJobsGet(ns, job.Name)
     IN \/ /\ old = {}
           /\ Return(c, DestroyJobResult(ErrNotFound), "")
           /\ Logged(c, Append(log[c], Call("CronJobs.Delete", ErrNotFound)))
           /\ UNCHANGED <<cluster, lastWrite>>
        \/ /\ Return(c, DestroyJobResult(ErrTransport), "")
           /\ Logged(c, Append(log[c], Call("CronJobs.Delete", ErrTransport)))
           /\ UNCHANGED <<cluster, lastWrite>>
        \/ /\ old # {}
           /\ cronjobs' = cronjobs \ old
           /\ jobs' = DestroyJobExecutions(jobs, old)
           /\ Return(c, DestroyJobResult(""), "")
           /\ Logged(c, Append(log[c], Call("CronJobs.Delete", "")))
           /\ lastWrite' = [lastWrite EXCEPT ![Key(ns, job.Name)] = Nil]
           /\ UNCHANGED <<serviceAccounts, nextUID>>
  /\ Injected(c)
  /\ UNCHANGED <<clock, op, arg, locals, calls, workloads, reconciler, bridge, compiler, webhook>>

\* ------------------------------------------------------------ manual trigger

\* TriggerCronAfterGet that goes on without a schedule.
TriggerCronAfterGet_Masked(c, e) ==
  IF e # "" /\ ~IsNotFound(e) THEN Return(c, e, "") ELSE Return(c, "", "")

\* TriggerCron after CronJobs.Get has returned `e`: an error is the call's.
TriggerCronAfterGet(c, e) ==
  IF e # "" THEN Return(c, e, "") ELSE Goto(c, "TriggerCron_build")

\* TriggerCron up to CronJobs.Get.
TriggerCron(c, a) ==
  LET ns == PoolNamespace(a.Pool)
      found == CronJobsGet(ns, a.Name)
  IN /\ Begin(c, "TriggerCron", a)
     /\ UNCHANGED <<cluster, clock, lastWrite, workloads, reconciler, bridge, compiler, webhook>>
     /\ \/ /\ Return(c, clusterForPoolFailed(ErrCluster), "")
           /\ Logged(c, <<>>)
           /\ NoFetch(c)
        \/ /\ found = {}
           /\ TriggerCronAfterGet(c, ErrNotFound)
           /\ Logged(c, <<Call("CronJobs.Get", ErrNotFound)>>)
           /\ NoFetch(c)
        \/ /\ TriggerCronAfterGet(c, ErrTransport)
           /\ Logged(c, <<Call("CronJobs.Get", ErrTransport)>>)
           /\ NoFetch(c)
        \/ /\ \E cj \in found : cron' = Set(cron, c, Ptr(cj), Nil)
           /\ Logged(c, <<Call("CronJobs.Get", "")>>)
           /\ TriggerCronAfterGet(c, "")
     /\ Injected(c)

\* BuildCronChild whose owner reference carries no identifier.
BuildCronChild_NoOwnerUID(cj, unix) ==
  [Name |-> getManualJobName(cj.Name, unix),
   Namespace |-> cj.Namespace,
   Labels |-> cj.Labels,
   Annotations |-> IF cj.Annotations = EmptyMap
                   THEN (ManualAnnotation :> "manual")
                   ELSE MapPut(cj.Annotations, ManualAnnotation, "manual"),
   OwnerReferences |-> << [Name |-> cj.Name, Kind |-> "CronJob",
                           UID |-> 0, APIVersion |-> "batch/v1"] >>,
   Spec |-> cj.JobTemplate]

\* BuildCronChild that leaves the schedule's labels out.
BuildCronChild_NoLabels(cj, unix) ==
  [Name |-> getManualJobName(cj.Name, unix),
   Namespace |-> cj.Namespace,
   Labels |-> EmptyMap,
   Annotations |-> IF cj.Annotations = EmptyMap
                   THEN (ManualAnnotation :> "manual")
                   ELSE MapPut(cj.Annotations, ManualAnnotation, "manual"),
   OwnerReferences |-> << [Name |-> cj.Name, Kind |-> "CronJob",
                           UID |-> cj.UID, APIVersion |-> "batch/v1"] >>,
   Spec |-> cj.JobTemplate]

\* BuildCronChild that sets the manual marker only when the key is absent.
BuildCronChild_KeepMarker(cj, unix) ==
  [Name |-> getManualJobName(cj.Name, unix),
   Namespace |-> cj.Namespace,
   Labels |-> cj.Labels,
   Annotations |-> IF ManualAnnotation \in DOMAIN cj.Annotations
                   THEN cj.Annotations
                   ELSE MapPut(cj.Annotations, ManualAnnotation, "manual"),
   OwnerReferences |-> << [Name |-> cj.Name, Kind |-> "CronJob",
                           UID |-> cj.UID, APIVersion |-> "batch/v1"] >>,
   Spec |-> cj.JobTemplate]

\* The batchv1.Job TriggerCron builds from the schedule it fetched, with the
\* name getManualJobName gives it at wall-clock time `unix`.
BuildCronChild(cj, unix) ==
  [Name |-> getManualJobName(cj.Name, unix),
   Namespace |-> cj.Namespace,
   Labels |-> cj.Labels,
   Annotations |-> IF cj.Annotations = EmptyMap
                   THEN (ManualAnnotation :> "manual")
                   ELSE MapPut(cj.Annotations, ManualAnnotation, "manual"),
   OwnerReferences |-> << [Name |-> cj.Name, Kind |-> "CronJob",
                           UID |-> cj.UID, APIVersion |-> "batch/v1"] >>,
   Spec |-> cj.JobTemplate]

\* TriggerCron between the two orchestrator calls: it reads the clock.
TriggerCronBuild(c) ==
  /\ pc[c] = "TriggerCron_build"
  /\ LET child == BuildCronChild(cron[c][1], now)
     IN /\ cronChild' = [cronChild EXCEPT ![c] = Ptr(child)]
        /\ nameFree' = [nameFree EXCEPT ![c] = Ptr(JobsGet(child.Namespace, child.Name) = {})]
  /\ scheduledTime' = [scheduledTime EXCEPT ![c] = Ptr(now)]
  /\ Goto(c, "TriggerCron_submit")
  /\ UNCHANGED <<cluster, clock, op, arg, cron, log, calls, faults, lastWrite, workloads, reconciler, bridge, compiler, webhook>>

\* TriggerCronResult that takes a name conflict for a success.
TriggerCronResult_Masked(e) == IF e = ErrAlreadyExists THEN "" ELSE e

\* What TriggerCron returns given the error of Jobs.Create.
TriggerCronResult(e) == e

\* SubmittedChild that builds the execution anew from the schedule as the
\* orchestrator holds it at the moment of Jobs.Create.
SubmittedChild_Refetched(c) ==
  LET current == CronJobsGet(cron[c][1].Namespace, cron[c][1].Name)
  IN IF current = {} THEN cronChild[c][1]
     ELSE BuildCronChild(CHOOSE cj \in current : TRUE, scheduledTime[c][1])

\* The execution TriggerCron hands to Jobs.Create: the one it built from the
\* schedule it fetched.
SubmittedChild(c) == cronChild[c][1]

\* TriggerCron's last lines: Jobs.Create, whose error is the call's.
TriggerCronSubmit(c) ==
  /\ pc[c] = "TriggerCron_submit"
  /\ LET child == SubmittedChild(c)
         old == JobsGet(child.Namespace, child.Name)
     IN \/ /\ old # {}
           /\ Return(c, TriggerCronResult(ErrAlreadyExists), "")
           /\ Logged(c, Append(log[c], Call("Jobs.Create", ErrAlreadyExists)))
           /\ UNCHANGED cluster
        \/ /\ Return(c, TriggerCronResult(ErrTransport), "")
           /\ Logged(c, Append(log[c], Call("Jobs.Create", ErrTransport)))
           /\ UNCHANGED cluster
        \/ /\ old = {}
           /\ nextUID <= MaxUID
           /\ jobs' = jobs \cup {CreatedJob(child, nextUID, now)}
           /\ nextUID' = nextUID + 1
           /\ Return(c, TriggerCronResult(""), "")
           /\ Logged(c, Append(log[c], Call("Jobs.Create", "")))
           /\ UNCHANGED <<cronjobs, serviceAccounts>>
  /\ Injected(c)
  /\ UNCHANGED <<clock, op, arg, locals, calls, lastWrite, workloads, reconciler, bridge, compiler, webhook>>

\* -------------------------------------------------------------- reconciler

\* Number of changes the orchestrator's controllers make to executions and pods.
MaxChanges == 3
\* Largest value of an execution's failed and succeeded counters.
MaxCount == 1
\* Number of pods an execution has at most.
MaxPods == 2
\* Largest restart count of a container.
MaxRestarts == 1

PodJobName == "job-name"

StatusError == "error"
StatusSucceeded == "succeeded"
StatusStarted == "started"

\* The phases a pod goes through, each with the phases that can follow it.
PodPhases ==
  [Pending |-> {"Running"}, Running |-> {"Succeeded", "Failed"},
   Succeeded |-> {}, Failed |-> {}]

\* The first pod of an execution has two containers, the others one.
PodContainers(k) == IF k = 1 THEN 2 ELSE 1

\* The Jobs the reconciler is asked about: two in one pool, and one of the
\* same name in another pool.
UnitJobs ==
  << MkJob("mailer", "p1", "*/5 * * * *", FALSE, Nil, "", <<KV("team", "x")>>, <<>>),
     MkJob("foo", "p1", "@daily", TRUE, Nil, "", <<>>, <<>>),
     MkJob("mailer", "p2", "@daily", TRUE, Nil, "", <<>>, <<>>) >>

\* The executions manual triggers have made of those Jobs: two of the first
\* Job a minute apart, one of the second, and one of the third in the minute
\* of the first, whose name is therefore the name of the first.
SeedJob(i, uid, at) ==
  CreatedJob(BuildCronChild(CreatedCronJob(UnitJobs[i], i), at), uid, at)

SeedJobs ==
  << SeedJob(1, 4, StartTime),
     SeedJob(2, 5, StartTime),
     SeedJob(3, 6, StartTime),
     SeedJob(1, 7, StartTime + SecondsPerMinute) >>

\* A label selector of equalities matches the labels that have every pair.
Matches(selector, labels) ==
  \A k \in DOMAIN selector : k \in DOMAIN labels /\ labels[k] = selector[k]

\* Jobs(namespace).List with a label selector: the executions of the
\* namespace whose labels match.
JobsList(namespace, selector) ==
  {j \in jobs : j.Namespace = namespace /\ Matches(selector, j.Labels)}

\* Pods(namespace).List with a label selector.
PodsList(namespace, selector) ==
  {p \in pods : p.Namespace = namespace /\ Matches(selector, p.Labels)}

\* The orders in which a list call can return the objects of a set.
Orders(S) ==
  {o \in [1..Cardinality(S) -> S] : \A a, b \in 1..Cardinality(S) : o[a] = o[b] => a = b}

\* containersRestarts: the restart counts of the containers of a pod, added up.
RECURSIVE containersRestarts(_)
containersRestarts(containerStatuses) ==
  IF containerStatuses = <<>> THEN 0
  ELSE Head(containerStatuses).RestartCount + containersRestarts(Tail(containerStatuses))

\* getPodsForJob that lists every pod of the execution's namespace.
getPodsForJob_AllOfNamespace(job) == PodsList(job.Namespace, EmptyMap)

\* getPodsForJob: the pods of the execution's namespace labelled with its name.
getPodsForJob(job) == PodsList(job.Namespace, (PodJobName :> job.Name))

\* The loop over the pods of jobsToJobUnits: restarts += containersRestarts.
RECURSIVE SumRestarts(_)
SumRestarts(ps) ==
  IF ps = {} THEN 0
  ELSE LET pod == CHOOSE x \in ps : TRUE
       IN SumRestarts(ps \ {pod}) + containersRestarts(pod.ContainerStatuses)

\* unitStatus in which a success hides a failure.
unitStatus_SuccessFirst(status) ==
  IF status.Succeeded > 0 THEN StatusSucceeded
  ELSE IF status.Failed > 0 THEN StatusError
  ELSE StatusStarted

\* The switch of jobsToJobUnits over the execution's counters.
unitStatus(status) ==
  IF status.Failed > 0 THEN StatusError
  ELSE IF status.Succeeded > 0 THEN StatusSucceeded
  ELSE StatusStarted

\* The provision.Unit jobsToJobUnits appends for an execution and its pods.
jobUnit(k8sJob, podsOfJob) ==
  [ID |-> k8sJob.Name,
   Name |-> k8sJob.Name,
   Status |-> unitStatus(k8sJob.Status),
   Restarts |-> SumRestarts(podsOfJob),
   CreatedAt |-> k8sJob.CreationTimestamp]

\* The selector of JobUnits that selects every execution of the namespace.
unitsSelector_Any(job) == EmptyMap

\* The label selector JobUnits lists the executions with.
unitsSelector(job) == JobLabels(job)

\* What jobsToJobUnits returns when a pod listing fails: the units built so
\* far are kept.
jobsToJobUnitsFailed_Partial(built) == built

\* What jobsToJobUnits returns when a pod listing fails: nil.
jobsToJobUnitsFailed(built) == <<>>

\* The cluster holds the schedules of UnitJobs and some of their manual
\* executions, all without pods and with their counters at zero.
InitUnits ==
  /\ cronjobs = {CreatedCronJob(UnitJobs[i], i) : i \in DOMAIN UnitJobs}
  /\ serviceAccounts = {CreatedServiceAccount(UnitJobs[i]) : i \in DOMAIN UnitJobs}
  /\ \E n \in 0..Len(SeedJobs) : jobs = {SeedJobs[i] : i \in 1..n}
  /\ nextUID = Len(UnitJobs) + Len(SeedJobs) + 1
  /\ lastWrite = [k \in Keys |->
        IF \E i \in DOMAIN UnitJobs :
             k = Key(PoolNamespace(UnitJobs[i].Pool), UnitJobs[i].Name)
        THEN Ptr(UnitJobs[CHOOSE i \in DOMAIN UnitJobs :
                   k = Key(PoolNamespace(UnitJobs[i].Pool), UnitJobs[i].Name)])
        ELSE Nil]
  /\ now = StartTime + SecondsPerMinute
  /\ ticks = 0
  /\ pc = [c \in Callers |-> "idle"]
  /\ op = [c \in Callers |-> "none"]
  /\ arg = [c \in Callers |-> Nil]
  /\ cron = [c \in Callers |-> Nil]
  /\ cronChild = [c \in Callers |-> Nil]
  /\ scheduledTime = [c \in Callers |-> Nil]
  /\ nameFree = [c \in Callers |-> Nil]
  /\ err = [c \in Callers |-> ""]
  /\ ret = [c \in Callers |-> ""]
  /\ log = [c \in Callers |-> <<>>]
  /\ calls = 0
  /\ faults = 0
  /\ pods = {}
  /\ changes = 0
  /\ unitsPc = "idle"
  /\ unitsJob = Nil
  /\ k8sJobs = <<>>
  /\ units = <<>>
  /\ unitsRet = <<>>
  /\ unitsErr = ""
  /\ audit = <<>>
  /\ stream = 0
  /\ lastEvent = Nil
  /\ CompilerIdle
  /\ WebhookService(<<>>)

provisioner == <<clock, pc, op, arg, locals, err, ret, log, lastWrite>>

\* A controller of the orchestrator changes something. The reconciler is the
\* only reader of executions and pods here: a change after its call has
\* returned is read by nobody.
Changed ==
  /\ changes < MaxChanges
  /\ unitsPc # "done"
  /\ changes' = changes + 1
  /\ UNCHANGED <<cronjobs, serviceAccounts, nextUID, provisioner, calls, faults, reconciler,
                 bridge, compiler, webhook>>

\* The job controller counts a failed or a succeeded pod of an execution.
JobCounts(j, field) ==
  /\ j \in jobs
  /\ j.Status[field] < MaxCount
  /\ jobs' = (jobs \ {j}) \cup
             {[j EXCEPT !.Status = [j.Status EXCEPT ![field] = j.Status[field] + 1]]}
  /\ UNCHANGED pods
  /\ Changed

\* The job controller starts pod number k of an execution, the pods before
\* it having been started.
PodStarts(j, k) ==
  /\ j \in jobs
  /\ \A p \in pods : ~(p.Namespace = j.Namespace /\ p.Name = <<j.Name, k>>)
  /\ \A h \in 1..(k - 1) :
       \E p \in pods : p.Namespace = j.Namespace /\ p.Name = <<j.Name, h>>
  /\ pods' = pods \cup
       {[Name |-> <<j.Name, k>>,
         Namespace |-> j.Namespace,
         Labels |-> (PodJobName :> j.Name),
         Phase |-> "Pending",
         ContainerStatuses |-> [i \in 1..PodContainers(k) |-> [RestartCount |-> 0]]]}
  /\ UNCHANGED jobs
  /\ Changed

\* A pod goes to another phase.
PodPhase(p, phase) ==
  /\ p \in pods
  /\ phase \in PodPhases[p.Phase]
  /\ pods' = (pods \ {p}) \cup {[p EXCEPT !.Phase = phase]}
  /\ UNCHANGED jobs
  /\ Changed

\* The node agent restarts container i of a pod.
ContainerRestarts(p, i) ==
  /\ p \in pods
  /\ i \in DOMAIN p.ContainerStatuses
  /\ p.ContainerStatuses[i].RestartCount < MaxRestarts
  /\ pods' = (pods \ {p}) \cup
       {[p EXCEPT !.ContainerStatuses[i].RestartCount = @ + 1]}
  /\ UNCHANGED jobs
  /\ Changed

\* JobUnits up to Jobs.List; with no execution listed jobsToJobUnits returns
\* at once. One call is followed from its start to its return.
JobUnits(job) ==
  /\ unitsPc = "idle"
  /\ calls < MaxCalls
  /\ calls' = calls + 1
  /\ unitsJob' = Ptr(job)
  /\ units' = <<>>
  /\ unitsRet' = <<>>
  /\ \/ /\ unitsErr' = clusterForPoolFailed(ErrCluster)
        /\ k8sJobs' = <<>>
        /\ unitsPc' = "done"
     \/ /\ unitsErr' = ErrTransport
        /\ k8sJobs' = <<>>
        /\ unitsPc' = "done"
     \/ /\ unitsErr' = ""
        /\ k8sJobs' \in Orders(JobsList(PoolNamespace(job.Pool), unitsSelector(job)))
        /\ unitsPc' = IF k8sJobs' = <<>> THEN "done" ELSE "jobsToJobUnits"
  /\ faults' = IF unitsErr' = "" THEN faults ELSE faults + 1
  /\ faults' <= MaxFaults
  /\ UNCHANGED <<cluster, provisioner, workloads, bridge, compiler, webhook>>

\* One turn of the loop of jobsToJobUnits: the pods of the next execution are
\* listed and its unit is appended; after the last one the units are returned.
jobsToJobUnits ==
  /\ unitsPc = "jobsToJobUnits"
  /\ LET k8sJob == k8sJobs[Len(units) + 1]
     IN \/ /\ unitsErr' = ErrTransport
           /\ unitsRet' = jobsToJobUnitsFailed(units)
           /\ unitsPc' = "done"
           /\ UNCHANGED units
        \/ /\ units' = Append(units, jobUnit(k8sJob, getPodsForJob(k8sJob)))
           /\ unitsErr' = ""
           /\ IF Len(units') = Len(k8sJobs)
              THEN unitsRet' = units' /\ unitsPc' = "done"
              ELSE unitsRet' = <<>> /\ unitsPc' = "jobsToJobUnits"
  /\ faults' = IF unitsErr' = "" THEN faults ELSE faults + 1
  /\ faults' <= MaxFaults
  /\ UNCHANGED <<cluster, provisioner, workloads, bridge, compiler, webhook,
                 calls, unitsJob, k8sJobs>>

\* --------------------------------------------------------------- the system

Next ==
  \/ Tick
  \/ \E c \in Callers, job \in Jobs : CreateJob(c, job)
  \/ \E c \in Callers : CreateJobSubmit(c)
  \/ \E c \in Callers, job \in Jobs : UpdateJob(c, job)
  \/ \E c \in Callers : UpdateJobSubmit(c)
  \/ \E c \in Callers, job \in DestroyArgs : DestroyJob(c, job)
  \/ \E c \in Callers : DestroyJobCronDelete(c)
  \/ \E c \in Callers, a \in TriggerArgs : TriggerCron(c, a)
  \/ \E c \in Callers : TriggerCronBuild(c)
  \/ \E c \in Callers : TriggerCronSubmit(c)

Spec == Init /\ [][Next]_vars

\* One caller makes its calls one after the other, and JobUnits is called
\* beside them.
NextSerial ==
  \/ Tick
  \/ \E job \in Jobs : CreateJob("c1", job)
  \/ CreateJobSubmit("c1")
  \/ \E job \in Jobs : UpdateJob("c1", job)
  \/ UpdateJobSubmit("c1")
  \/ \E job \in DestroyArgs : DestroyJob("c1", job)
  \/ DestroyJobCronDelete("c1")
  \/ \E a \in TriggerArgs : TriggerCron("c1", a)
  \/ TriggerCronBuild("c1")
  \/ TriggerCronSubmit("c1")
  \/ \E job \in DestroyArgs : JobUnits(job)
  \/ jobsToJobUnits

SpecSerial == Init /\ [][NextSerial]_vars

NextUnits ==
  \/ \E j \in jobs, field \in {"Failed", "Succeeded"} : JobCounts(j, field)
  \/ \E j \in jobs, k \in 1..MaxPods : PodStarts(j, k)
  \/ \E p \in pods, phase \in DOMAIN PodPhases : PodPhase(p, phase)
  \/ \E p \in pods : \E i \in DOMAIN p.ContainerStatuses : ContainerRestarts(p, i)
  \/ \E i \in DOMAIN UnitJobs : JobUnits(UnitJobs[i])
  \/ jobsToJobUnits

SpecUnits == InitUnits /\ [][NextUnits]_vars

\* ------------------------------------------------------------ event bridge

\* Number of orchestrator events handed to the event bridge.
MaxEvents == 2

PermJobRun == "job.run"
PermJobCreate == "job.create"
PermJobReadEvents == "job.read.events"

\* An orchestrator event about an execution. A message is a text given as
\* its words.
MkEvent(reason, type, message) ==
  [Reason |-> reason, Type |-> type, Message |-> message,
   CreationTimestamp |-> StartTime]

Events ==
  { MkEvent("Completed", "Normal", <<"Job", "completed">>),
    MkEvent("BackoffLimitExceeded", "Warning", <<"Job", "has", "reached", "the", "limit">>),
    MkEvent("BackoffLimitExceeded", "Warning", <<>>),
    MkEvent("SuccessfulCreate", "Normal", <<"Created", "pod">>),
    MkEvent("DeadlineExceeded", "Warning", <<"Job", "was", "active", "too", "long">>) }

\* The executions the events are about: one a manual trigger made of a
\* schedule, one that nothing owns, and one owned by an object of another kind.
EventJobs ==
  { SeedJobs[1],
    [SeedJobs[1] EXCEPT !.OwnerReferences = <<>>],
    [SeedJobs[1] EXCEPT !.OwnerReferences =
       << [Name |-> "nightly", Kind |-> "Workflow", UID |-> 9, APIVersion |-> "v1"] >>] }

\* fmt.Sprintf("job failed: %s", message).
JobFailed(message) == <<"job failed: ">> \o message

\* The switch over evt.Reason: the kind of the audit event, or Nil for a
\* reason the bridge ignores.
eventKind(reason) ==
  IF reason = "Completed" THEN Ptr(PermJobRun)
  ELSE IF reason = "BackoffLimitExceeded" THEN Ptr(PermJobRun)
  ELSE IF reason = "SuccessfulCreate" THEN Ptr(PermJobCreate)
  ELSE Nil

\* eventError that records a failure for every Run event.
eventError_EveryRun(evt) ==
  IF evt.Reason \in {"BackoffLimitExceeded", "Completed"}
  THEN Ptr(JobFailed(evt.Message)) ELSE Nil

\* The switch over evt.Reason: the error the audit event is marked done with.
eventError(evt) ==
  IF evt.Reason = "BackoffLimitExceeded" THEN Ptr(JobFailed(evt.Message)) ELSE Nil

\* The name of an execution is a tuple (getManualJobName); where the name of
\* an owner stands beside it, the name s of the owner is the tuple <<s>>.
OwnerName(ref) == <<ref.Name>>

\* realJobOwner that takes the name of any owner reference.
RECURSIVE realJobOwner_AnyKind(_, _)
realJobOwner_AnyKind(owner, ownerReferences) ==
  IF ownerReferences = <<>> THEN owner
  ELSE realJobOwner_AnyKind(OwnerName(Head(ownerReferences)), Tail(ownerReferences))

\* The loop over job.OwnerReferences, started with job.Name: the name of the
\* last owner reference of kind CronJob.
RECURSIVE realJobOwner(_, _)
realJobOwner(owner, ownerReferences) ==
  IF ownerReferences = <<>> THEN owner
  ELSE realJobOwner(IF Head(ownerReferences).Kind = "CronJob"
                    THEN OwnerName(Head(ownerReferences)) ELSE owner,
                    Tail(ownerReferences))

\* metav1.Time.String().
TimeString(t) == <<"time", t>>

\* The audit event createJobEvent builds and marks done: the event.Opts, the
\* error and the custom data.
auditEvent(job, evt) ==
  LET owner == realJobOwner(job.Name, job.OwnerReferences)
  IN [Kind |-> eventKind(evt.Reason)[1],
      Target |-> [Type |-> "job", Value |-> owner],
      Allowed |-> [Scheme |-> PermJobReadEvents,
                   Contexts |-> << [CtxType |-> "job", Value |-> owner] >>],
      RawOwner |-> [Type |-> "internal"],
      Cancelable |-> FALSE,
      Error |-> eventError(evt),
      CustomData |-> [k \in {"job-name", "job-controller", "event-type", "event-reason",
                             "message", "cluster-start-time"} |->
         IF k = "job-name" THEN Ptr(job.Name)
         ELSE IF k = "job-controller" THEN Ptr(owner)
         ELSE IF k = "event-type" THEN Ptr(evt.Type)
         ELSE IF k = "event-reason" THEN Ptr(evt.Reason)
         ELSE IF k = "message" THEN Ptr(evt.Message)
         ELSE Ptr(TimeString(evt.CreationTimestamp))]]

\* What createJobEvent leaves in the audit log when event.New fails: the event
\* is marked done all the same.
auditAfterRejection_Recorded(log0, job, evt) == Append(log0, auditEvent(job, evt))

\* What createJobEvent leaves in the audit log when event.New fails.
auditAfterRejection(log0, job, evt) == log0

\* createJobEvent, called with an execution and an event about it; event.New
\* accepts the audit event or rejects it.
createJobEvent(job, evt, rejected) ==
  /\ stream < MaxEvents
  /\ stream' = stream + 1
  /\ lastEvent' = Ptr([job |-> job, evt |-> evt, rejected |-> rejected])
  /\ audit' = IF eventKind(evt.Reason) = Nil THEN audit
              ELSE IF rejected THEN auditAfterRejection(audit, job, evt)
              ELSE Append(audit, auditEvent(job, evt))
  /\ UNCHANGED <<cluster, provisioner, calls, faults, workloads, reconciler,
                 compiler, webhook>>

NextEvents ==
  \E job \in EventJobs, evt \in Events, rejected \in BOOLEAN :
    createJobEvent(job, evt, rejected)

SpecEvents == Init /\ [][NextEvents]_vars

\* ------------------------------------------- destroy beside running executions

\* One caller calls DestroyJob while the orchestrator's controllers run the
\* executions of the cluster.
NextDestroy ==
  \/ \E i \in DOMAIN UnitJobs : DestroyJob("c1", UnitJobs[i])
  \/ DestroyJobCronDelete("c1")
  \/ \E j \in jobs, field \in {"Failed", "Succeeded"} : JobCounts(j, field)
  \/ \E j \in jobs, k \in 1..MaxPods : PodStarts(j, k)
  \/ \E p \in pods, phase \in DOMAIN PodPhases : PodPhase(p, phase)

\* The cluster holds the schedules of UnitJobs and an execution of each of
\* the two that share a namespace.
InitDestroy == InitUnits /\ jobs = {SeedJobs[1], SeedJobs[2]}

SpecDestroy == InitDestroy /\ [][NextDestroy]_vars

\* ------------------------------------------------- the spec compiler alone

\* Largest number of characters of a variable's value.
MaxLen == 2
\* Largest number of user-defined variables of a Job.
MaxEnvs == 2
\* Number of times the same Job is compiled.
MaxCompiles == 2

EnvChars == {"$", "a"}
EnvValues == UNION {[1..n -> EnvChars] : n \in 0..MaxLen}
EnvNames == <<"PRICE", "TOKEN", "HOME", "LANG">>

\* The lists of user-defined variables: the names are given by the position.
UserEnvs ==
  UNION {{[i \in 1..n |-> KV(EnvNames[i], v[i])] : v \in [1..n -> EnvValues]} :
         n \in 0..MaxEnvs}

\* The lists of service-injected variables.
ServiceEnvs ==
  { <<>>,
    <<KV("DB", <<"h">>)>>,
    <<KV("DB", <<"$", "h">>), KV("URL", <<"a", "$", "$">>)>> }

\* The deadlines a Job comes with.
Deadlines == {Nil, Ptr(0), Ptr(1), Ptr(120), Ptr(DefaultActiveDeadline), Ptr(-1)}

\* Nothing but the spec compiler is at work: the cluster is empty and no call
\* is in flight.
Quiescent ==
  /\ cronjobs = {} /\ jobs = {} /\ serviceAccounts = {} /\ nextUID = 1
  /\ lastWrite = [k \in Keys |-> Nil]
  /\ now = StartTime /\ ticks = 0
  /\ pc = [c \in Callers |-> "idle"]
  /\ op = [c \in Callers |-> "none"]
  /\ arg = [c \in Callers |-> Nil]
  /\ cron = [c \in Callers |-> Nil]
  /\ cronChild = [c \in Callers |-> Nil]
  /\ scheduledTime = [c \in Callers |-> Nil]
  /\ nameFree = [c \in Callers |-> Nil]
  /\ err = [c \in Callers |-> ""]
  /\ ret = [c \in Callers |-> ""]
  /\ log = [c \in Callers |-> <<>>]
  /\ calls = 0 /\ faults = 0
  /\ pods = {} /\ changes = 0
  /\ unitsPc = "idle" /\ unitsJob = Nil /\ k8sJobs = <<>>
  /\ units = <<>> /\ unitsRet = <<>> /\ unitsErr = ""
  /\ audit = <<>> /\ stream = 0 /\ lastEvent = Nil

\* A Job with some deadline and some variables is about to be compiled.
InitCompile ==
  /\ Quiescent
  /\ WebhookService(<<>>)
  /\ \E deadline \in Deadlines, envs \in UserEnvs, serviceEnvs \in ServiceEnvs :
       compileJob = Ptr([MkJob("mailer", "p1", "@daily", FALSE, deadline, "", <<>>, <<>>)
                           EXCEPT !.Envs = envs, !.ServiceEnvs = serviceEnvs])
  /\ compiled = <<>>

\* buildJobSpec is called with the Job, resourceRequirements succeeding.
Compile ==
  /\ Len(compiled) < MaxCompiles
  /\ compiled' = Append(compiled,
        buildJobSpec(compileJob[1], Requirements, buildMetadataLabels(compileJob[1]),
                     buildMetadataAnnotations(compileJob[1])))
  /\ UNCHANGED <<cluster, provisioner, calls, faults, workloads, reconciler, bridge,
                 compileJob, webhook>>

NextCompile == Compile

SpecCompile == InitCompile /\ [][NextCompile]_vars

\* ---------------------------------------------------------- webhook service

\* The capacity of the event channel.
chanBufferSize == 1000

\* Notify calls made, and events the run loop receives, in one behaviour.
MaxNotify == 2
MaxHandle == 2

ErrContext == "context done"

\* The ids of n events enqueued before, and of the k-th event passed to Notify.
Backlog(n) == [i \in 1..n |-> i]
EventID(k) == chanBufferSize + k

\* Notify is called with a new event id and comes to its select; of the
\* callers that could make the call, the first one makes it.
Notify(n) ==
  /\ notifyPc[n] = "idle"
  /\ n = "n1" \/ notifyPc["n1"] # "idle"
  /\ notified < MaxNotify
  /\ notified' = notified + 1
  /\ notifyEvt' = [notifyEvt EXCEPT ![n] = Ptr(EventID(notified + 1))]
  /\ notifyPc' = [notifyPc EXCEPT ![n] = "select"]
  /\ UNCHANGED <<cluster, provisioner, calls, faults, workloads, reconciler, bridge,
                 compiler, delivery, evtCh, quitCh, doneCh, runPc, evtID, handled,
                 webhooksQueue, shutdownPc, shutdownErr, ctxDone>>

\* A send case that leaves the value in the buffer twice.
SendEvent_Twice(ch, v) == Append(Append(ch, v), v)

\* A send on the buffered channel.
SendEvent(ch, v) == Append(ch, v)

\* A select of Notify without its quit case.
QuitReady_Never(ch) == FALSE

\* A receive from the quit channel is ready once the channel is closed.
QuitReady(ch) == ch = "closed"

\* Notify's select takes `case s.evtCh <- evtID`: the buffer has room.
NotifySend(n) ==
  /\ notifyPc[n] = "select"
  /\ Len(evtCh) < chanBufferSize
  /\ evtCh' = SendEvent(evtCh, notifyEvt[n][1])
  /\ notifyPc' = [notifyPc EXCEPT ![n] = "gauge"]
  /\ UNCHANGED <<cluster, provisioner, calls, faults, workloads, reconciler, bridge,
                 compiler, delivery, quitCh, doneCh, runPc, evtID, handled, webhooksQueue,
                 shutdownPc, shutdownErr, ctxDone, notifyEvt, notified>>

\* Notify's select takes `case <-s.quitCh`: the event is dropped.
NotifyQuit(n) ==
  /\ notifyPc[n] = "select"
  /\ QuitReady(quitCh)
  /\ notifyPc' = [notifyPc EXCEPT ![n] = "gauge"]
  /\ UNCHANGED <<cluster, provisioner, calls, faults, workloads, reconciler, bridge,
                 compiler, delivery, evtCh, quitCh, doneCh, runPc, evtID, handled,
                 webhooksQueue, shutdownPc, shutdownErr, ctxDone, notifyEvt, notified>>

\* Notify sets the gauge to the length of the channel and returns.
NotifyGauge(n) ==
  /\ notifyPc[n] = "gauge"
  /\ webhooksQueue' = Len(evtCh)
  /\ notifyPc' = [notifyPc EXCEPT ![n] = "idle"]
  /\ notifyEvt' = [notifyEvt EXCEPT ![n] = Nil]
  /\ UNCHANGED <<cluster, provisioner, calls, faults, workloads, reconciler, bridge,
                 compiler, delivery, evtCh, quitCh, doneCh, runPc, evtID, handled,
                 shutdownPc, shutdownErr, ctxDone, notified>>

\* The run loop's select takes `case evtID := <-s.evtCh`.
RunReceive ==
  /\ runPc = "select"
  /\ evtCh # <<>>
  /\ Len(handled) < MaxHandle
  /\ evtID' = Ptr(Head(evtCh))
  /\ evtCh' = Tail(evtCh)
  /\ runPc' = "gauge"
  /\ UNCHANGED <<cluster, provisioner, calls, faults, workloads, reconciler, bridge,
                 compiler, delivery, quitCh, doneCh, handled, webhooksQueue, shutdownPc,
                 shutdownErr, ctxDone, notifyPc, notifyEvt, notified>>

\* The run loop sets the gauge to the length of the channel.
RunGauge ==
  /\ runPc = "gauge"
  /\ webhooksQueue' = Len(evtCh)
  /\ runPc' = "handle"
  /\ UNCHANGED <<cluster, provisioner, calls, faults, workloads, reconciler, bridge,
                 compiler, delivery, evtCh, quitCh, doneCh, evtID, handled, shutdownPc,
                 shutdownErr, ctxDone, notifyPc, notifyEvt, notified>>

\* handleEvent finds the event and no hook for it and returns nil, and the
\* loop comes back to its select.
RunHandled ==
  /\ runPc = "handle"
  /\ handled' = Append(handled, evtID[1])
  /\ evtID' = Nil
  /\ runPc' = "select"
  /\ UNCHANGED <<cluster, provisioner, calls, faults, workloads, reconciler, bridge,
                 compiler, delivery, evtCh, quitCh, doneCh, webhooksQueue, shutdownPc,
                 shutdownErr, ctxDone, notifyPc, notifyEvt, notified>>

\* The run loop's select takes `case <-s.quitCh`: run returns, and its
\* deferred close(s.doneCh) runs.
RunQuit ==
  /\ runPc = "select"
  /\ QuitReady(quitCh)
  /\ runPc' = "exited"
  /\ doneCh' = "closed"
  /\ UNCHANGED <<cluster, provisioner, calls, faults, workloads, reconciler, bridge,
                 compiler, delivery, evtCh, quitCh, evtID, handled, webhooksQueue,
                 shutdownPc, shutdownErr, ctxDone, notifyPc, notifyEvt, notified>>

\* Shutdown is called, the one time the process shuts down: it closes the
\* quit channel and comes to its select.
Shutdown ==
  /\ shutdownPc = "idle"
  /\ quitCh' = "closed"
  /\ shutdownPc' = "select"
  /\ UNCHANGED <<cluster, provisioner, calls, faults, workloads, reconciler, bridge,
                 compiler, delivery, evtCh, doneCh, runPc, evtID, handled, webhooksQueue,
                 shutdownErr, ctxDone, notifyPc, notifyEvt, notified>>

\* A select of Shutdown that waits for the quit channel it has closed itself.
DoneReady_Quit == quitCh = "closed"

\* A receive from the done channel is ready once run has closed it.
DoneReady == doneCh = "closed"

\* Shutdown's select takes `case <-s.doneCh` and Shutdown returns nil.
ShutdownDone ==
  /\ shutdownPc = "select"
  /\ DoneReady
  /\ shutdownPc' = "returned"
  /\ shutdownErr' = ""
  /\ UNCHANGED <<cluster, provisioner, calls, faults, workloads, reconciler, bridge,
                 compiler, delivery, evtCh, quitCh, doneCh, runPc, evtID, handled,
                 webhooksQueue, ctxDone, notifyPc, notifyEvt, notified>>

\* Shutdown's select takes `case <-doneCtx` and Shutdown returns ctx.Err().
ShutdownContext ==
  /\ shutdownPc = "select"
  /\ ctxDone
  /\ shutdownPc' = "returned"
  /\ shutdownErr' = ErrContext
  /\ UNCHANGED <<cluster, provisioner, calls, faults, workloads, reconciler, bridge,
                 compiler, delivery, evtCh, quitCh, doneCh, runPc, evtID, handled,
                 webhooksQueue, ctxDone, notifyPc, notifyEvt, notified>>

\* The context of Shutdown's caller ends while Shutdown waits.
ContextEnds ==
  /\ ~ctxDone
  /\ shutdownPc = "select"
  /\ ctxDone' = TRUE
  /\ UNCHANGED <<cluster, provisioner, calls, faults, workloads, reconciler, bridge,
                 compiler, delivery, evtCh, quitCh, doneCh, runPc, evtID, handled,
                 webhooksQueue, shutdownPc, shutdownErr, notifyPc, notifyEvt, notified>>

\* The service has been running: its buffer is empty, or one short of full.
InitWebhook ==
  /\ Quiescent
  /\ CompilerIdle
  /\ \E n \in {0, chanBufferSize - 1} : WebhookService(Backlog(n))

NextWebhook ==
  \/ \E n \in Notifiers : Notify(n)
  \/ \E n \in Notifiers : NotifySend(n)
  \/ \E n \in Notifiers : NotifyQuit(n)
  \/ \E n \in Notifiers : NotifyGauge(n)
  \/ RunReceive
  \/ RunGauge
  \/ RunHandled
  \/ RunQuit
  \/ Shutdown
  \/ ShutdownDone
  \/ ShutdownContext
  \/ ContextEnds

SpecWebhook == InitWebhook /\ [][NextWebhook]_vars

\* A select with several ready cases takes each of them sooner or later, a
\* goroutine that can run does, and handleEvent returns.
FairWebhook ==
  /\ SF_vars(RunQuit)
  /\ WF_vars(RunGauge)
  /\ WF_vars(RunHandled)
  /\ \A n \in Notifiers : WF_vars(NotifySend(n) \/ NotifyQuit(n))
  /\ \A n \in Notifiers : WF_vars(NotifyGauge(n))

SpecWebhookFair == SpecWebhook /\ FairWebhook

\* ------------------------------------------------------- webhook deliveries

ErrEvent == "event not found"
ErrStorage == "webhook storage failed"
ErrHook == "webhook request failed"

\* The hooks FindByEvent returns when it returns any.
HookLists == {<<"h1">>, <<"h1", "h2">>}

\* A line of log.Errorf: about the event alone, or about one of its hooks.
LogLine(evt, hook, e) == [evt |-> evt, hook |-> hook, err |-> e]

\* A run loop that returns when handleEvent has returned an error.
AfterHandleError_Return == "exited"

\* Where the run loop goes on when handleEvent has returned an error.
AfterHandleError == "select"

\* event.GetByHexID or FindByEvent fails with e: handleEvent returns e, the
\* loop logs it and goes on.
handleEventFails(e) ==
  /\ runPc = "handle"
  /\ errorLog' = Append(errorLog, LogLine(evtID[1], Nil, e))
  /\ handled' = Append(handled, evtID[1])
  /\ evtID' = Nil
  /\ runPc' = AfterHandleError
  /\ UNCHANGED <<cluster, provisioner, calls, faults, workloads, reconciler, bridge,
                 compiler, evtCh, quitCh, doneCh, webhooksQueue, shutdownPc,
                 shutdownErr, ctxDone, notifyPc, notifyEvt, notified, hooks, hookCalls>>

\* FindByEvent returns the hooks hs, and handleEvent comes to its loop.
handleEventFinds(hs) ==
  /\ runPc = "handle"
  /\ hooks' = hs
  /\ runPc' = "doHook"
  /\ UNCHANGED <<cluster, provisioner, calls, faults, workloads, reconciler, bridge,
                 compiler, evtCh, quitCh, doneCh, evtID, handled, webhooksQueue,
                 shutdownPc, shutdownErr, ctxDone, notifyPc, notifyEvt, notified,
                 hookCalls, errorLog>>

\* The doHook calls made for the event.
CallsFor(evt) == SelectSeq(hookCalls, LAMBDA call : call.evt = evt)

\* A loop over the hooks that ends at the first hook that fails.
LastHook_OrFailed(hs, at, e) == at = Len(hs) \/ e # ""

\* Whether the hook at position `at` of hs, which returned e, ends the loop.
LastHook(hs, at, e) == at = Len(hs)

\* One turn of the loop of handleEvent: doHook is called for the next hook
\* and returns e, which is logged when it is an error; after the last hook
\* handleEvent returns nil and the run loop comes back to its select.
doHook(e) ==
  /\ runPc = "doHook"
  /\ LET at == Len(CallsFor(evtID[1])) + 1
         hook == hooks[at]
     IN /\ hookCalls' = Append(hookCalls, LogLine(evtID[1], Ptr(hook), e))
        /\ errorLog' = IF e # "" THEN Append(errorLog, LogLine(evtID[1], Ptr(hook), e))
                       ELSE errorLog
        /\ IF LastHook(hooks, at, e)
           THEN /\ handled' = Append(handled, evtID[1])
                /\ evtID' = Nil
                /\ hooks' = <<>>
                /\ runPc' = "select"
           ELSE UNCHANGED <<handled, evtID, hooks, runPc>>
  /\ UNCHANGED <<cluster, provisioner, calls, faults, workloads, reconciler, bridge,
                 compiler, evtCh, quitCh, doneCh, webhooksQueue, shutdownPc,
                 shutdownErr, ctxDone, notifyPc, notifyEvt, notified>>

\* One caller notifies, the run loop delivers, and Shutdown, whose caller
\* waits, may close the quit channel.
NextHandle ==
  \/ Notify("n1")
  \/ NotifySend("n1")
  \/ NotifyQuit("n1")
  \/ NotifyGauge("n1")
  \/ RunReceive
  \/ RunGauge
  \/ RunHandled
  \/ RunQuit
  \/ Shutdown
  \/ \E e \in {ErrEvent, ErrStorage} : handleEventFails(e)
  \/ \E hs \in HookLists : handleEventFinds(hs)
  \/ \E e \in {"", ErrHook} : doHook(e)

SpecHandle == InitWebhook /\ [][NextHandle]_vars

\* ------------------------------------------------------------------ claims

Returned(c, operation) == pc[c] = "idle" /\ op[c] = operation

JobOf(c) == arg[c][1]

CallsOf(c, name) == {i \in DOMAIN log[c] : log[c][i].call = name}

ScheduleWrites == {"CronJobs.Create", "CronJobs.Update"}

\* C1: whenever a schedule resource exists, its suspend flag is the manual flag
\* of the Job of the last successful CreateJob or UpdateJob for its name and
\* namespace; no failed call and no TriggerCron has changed it.
C1_SuspendMirrorsManual ==
  \A cj \in cronjobs :
    LET last == lastWrite[Key(cj.Namespace, cj.Name)]
    IN last # Nil /\ cj.Suspend = last[1].Manual

\* An UpdateJob with manual = true has gone through on a schedule that was
\* created with manual = false, and the schedule is suspended.
C1_Witness ==
  \E c \in Callers, cj \in cronjobs :
    /\ Returned(c, "UpdateJob") /\ err[c] = ""
    /\ JobOf(c).Manual /\ JobOf(c).Name = cj.Name
    /\ cj.Suspend /\ cj.UID = 1
    /\ lastWrite[Key(cj.Namespace, cj.Name)] = arg[c]
    /\ faults = 1

\* Two TriggerCron calls that built the same execution name while no execution
\* had it, and that both had an answer to their Jobs.Create.
Raced(c, d) ==
  /\ c # d
  /\ Returned(c, "TriggerCron") /\ Returned(d, "TriggerCron")
  /\ cronChild[c] # Nil /\ cronChild[d] # Nil
  /\ cronChild[c][1].Name = cronChild[d][1].Name
  /\ cronChild[c][1].Namespace = cronChild[d][1].Namespace
  /\ nameFree[c] = Ptr(TRUE) /\ nameFree[d] = Ptr(TRUE)
  /\ err[c] # ErrTransport /\ err[d] # ErrTransport

\* C2: of two concurrent TriggerCron calls racing on one execution name, exactly
\* one succeeds, exactly one execution of that name exists afterwards, and the
\* other returns the conflict error after a single Jobs.Create.
C2_TriggerRace ==
  \A c, d \in Callers :
    Raced(c, d) =>
      /\ (err[c] = "" /\ err[d] = ErrAlreadyExists) \/ (err[c] = ErrAlreadyExists /\ err[d] = "")
      /\ Cardinality(JobsGet(cronChild[c][1].Namespace, cronChild[c][1].Name)) = 1
      /\ Cardinality(CallsOf(c, "Jobs.Create")) = 1
      /\ Cardinality(CallsOf(d, "Jobs.Create")) = 1

C2_Witness ==
  \E c, d \in Callers : Raced(c, d) /\ err[c] = "" /\ err[d] = ErrAlreadyExists

\* Two TriggerCron calls of one schedule that have both read the clock.
BothNamed(c, d) ==
  /\ c # d
  /\ cronChild[c] # Nil /\ cronChild[d] # Nil
  /\ cron[c][1].Name = cron[d][1].Name

\* C3: two triggers of one schedule get the same execution name exactly when
\* their clock readings fall in the same minute (Unix seconds div 60), and a
\* trigger whose name was taken when it was built is rejected as a duplicate.
C3_ManualJobName ==
  /\ \A c, d \in Callers :
       BothNamed(c, d) =>
         ((cronChild[c][1].Name = cronChild[d][1].Name)
            <=> (scheduledTime[c][1] \div 60 = scheduledTime[d][1] \div 60))
  /\ \A c \in Callers :
       (Returned(c, "TriggerCron") /\ nameFree[c] = Ptr(FALSE) /\ err[c] # ErrTransport)
         => err[c] = ErrAlreadyExists

\* A trigger at 120 made the execution of minute 2, and one at 121 was rejected.
C3_Witness ==
  \E c \in Callers :
    /\ Returned(c, "TriggerCron") /\ scheduledTime[c] = Ptr(121)
    /\ nameFree[c] = Ptr(FALSE) /\ err[c] = ErrAlreadyExists
    /\ \E j \in jobs : j.Name = <<"mailer", "manual-job", 2>> /\ j.Name = cronChild[c][1].Name

\* A CreateJob or UpdateJob that returned the requirement resolver's error.
RequirementsFailed(c) ==
  /\ Returned(c, "CreateJob") \/ Returned(c, "UpdateJob")
  /\ err[c] = ErrRequirements

\* C4 as stated: when requirement resolution fails, the call has made no
\* orchestrator call at all.
C4_NoOrchestratorCall ==
  \A c \in Callers : RequirementsFailed(c) => log[c] = <<>>

\* C4, amended: when requirement resolution fails, the only orchestrator call
\* made is the identity provisioning, which succeeded: no schedule was submitted.
C4_NoScheduleCall ==
  \A c \in Callers :
    RequirementsFailed(c) => log[c] = <<Call("ensureServiceAccount", "")>>

\* A CreateJob in an empty cluster failed on the requirements: its identity
\* object exists and no schedule does.
C4_Witness ==
  \E c \in Callers :
    /\ RequirementsFailed(c) /\ Returned(c, "CreateJob")
    /\ cronjobs = {}
    /\ \E sa \in serviceAccounts : sa.Name = serviceAccountNameForJob(JobOf(c))

\* The step in which caller c hears from the orchestrator about the schedule it
\* submitted at label `at`.
Answered(c, at) ==
  /\ pc[c] = at /\ pc'[c] = "idle"
  /\ err'[c] \notin {ErrRequirements, ErrTransport}

ScheduleOf(job) == CronJobsGet(PoolNamespace(job.Pool), job.Name)

\* C5: a CreateJob whose schedule already exists returns the already-exists
\* error and an empty name, and leaves the schedule resources as they were.
C5_CreateExisting ==
  [][\A c \in Callers :
       (Answered(c, "CreateJob_submit") /\ ScheduleOf(JobOf(c)) # {})
         => /\ err'[c] = ErrAlreadyExists
            /\ ret'[c] = ""
            /\ cronjobs' = cronjobs]_vars

\* A CreateJob was refused although its Job differs from the one the schedule
\* was made from.
C5_Witness ==
  \E c \in Callers, cj \in cronjobs :
    /\ Returned(c, "CreateJob") /\ err[c] = ErrAlreadyExists /\ ret[c] = ""
    /\ cj.Name = JobOf(c).Name /\ cj.Namespace = PoolNamespace(JobOf(c).Pool)
    /\ cj.Schedule # JobOf(c).Schedule

\* C6: an UpdateJob whose schedule does not exist returns the not-found error
\* and creates no schedule resource.
C6_UpdateMissing ==
  [][\A c \in Callers :
       (Answered(c, "UpdateJob_submit") /\ ScheduleOf(JobOf(c)) = {})
         => /\ err'[c] = ErrNotFound
            /\ cronjobs' = cronjobs]_vars

\* An UpdateJob was refused because a DestroyJob had deleted its schedule.
C6_Witness ==
  \E c, d \in Callers :
    /\ Returned(c, "UpdateJob") /\ err[c] = ErrNotFound
    /\ Returned(d, "DestroyJob") /\ err[d] = ""
    /\ JobOf(d).Name = JobOf(c).Name /\ JobOf(d).Pool = JobOf(c).Pool
    /\ cronjobs = {} /\ nextUID = 2

\* C7: DestroyJob goes on to the schedule delete when the identity delete
\* succeeded or found nothing, and then returns the schedule delete's error;
\* any other identity delete failure is returned and ends the call.
C7_DestroyIdentity ==
  \A c \in Callers :
    (Returned(c, "DestroyJob") /\ log[c] # <<>>) =>
      /\ log[c][1].call = "ServiceAccounts.Delete"
      /\ IF log[c][1].err \in {"", ErrNotFound}
         THEN /\ Len(log[c]) = 2
              /\ log[c][2].call = "CronJobs.Delete"
              /\ err[c] = log[c][2].err
         ELSE /\ Len(log[c]) = 1
              /\ err[c] = log[c][1].err

\* A DestroyJob found no identity object and deleted the schedule all the same.
C7_Witness ==
  \E c \in Callers :
    /\ Returned(c, "DestroyJob") /\ err[c] = ""
    /\ log[c] = <<Call("ServiceAccounts.Delete", ErrNotFound), Call("CronJobs.Delete", "")>>
    /\ ScheduleOf(JobOf(c)) = {}

\* The schedule resource that a successful UpdateJob(job) must leave in place
\* of `old`: everything derived from job, the identity of old.
Replaced(old, job) ==
  [Name |-> old.Name,
   Namespace |-> old.Namespace,
   UID |-> old.UID,
   Labels |-> MergeLabels(JobLabels(job), job.Labels),
   Annotations |-> CopyAnnotations(EmptyMap, job.Annotations),
   Schedule |-> job.Schedule,
   Suspend |-> job.Manual,
   JobTemplate |-> buildJobSpec(job, Requirements,
                                MergeLabels(JobLabels(job), job.Labels),
                                CopyAnnotations(EmptyMap, job.Annotations))]

\* C8: a successful UpdateJob replaces the schedule resource by the one derived
\* from its Job, under the same name, namespace and identifier; nothing of the
\* previous version is left.
C8_UpdateReplaces ==
  [][\A c \in Callers :
       (Answered(c, "UpdateJob_submit") /\ err'[c] = "")
         => /\ ScheduleOf(JobOf(c)) # {}
            /\ cronjobs' = (cronjobs \ ScheduleOf(JobOf(c)))
                             \cup {Replaced(old, JobOf(c)) : old \in ScheduleOf(JobOf(c))}]_vars

\* An UpdateJob with manual = true and no custom label went through on the
\* schedule a CreateJob had made with manual = false and a custom label: the
\* label is gone, the schedule is suspended, its name and identifier are kept.
C8_Witness ==
  \E c, d \in Callers, cj \in cronjobs :
    /\ Returned(d, "CreateJob") /\ err[d] = "" /\ ret[d] = cj.Name
    /\ ~JobOf(d).Manual /\ JobOf(d).Labels = <<KV("team", "x")>>
    /\ Returned(c, "UpdateJob") /\ err[c] = ""
    /\ JobOf(c).Manual /\ JobOf(c).Labels = <<>>
    /\ lastWrite[Key(cj.Namespace, cj.Name)] = arg[c]
    /\ cj.Suspend /\ "team" \notin DOMAIN cj.Labels /\ cj.UID = 1

\* C9: every schedule resource has the name of the Job it was last written from
\* and the namespace of that Job's pool, no two schedule resources share a
\* namespace and a name, and a successful CreateJob returns the Job's name.
C9_NameAndNamespace ==
  /\ \A cj \in cronjobs :
       /\ Key(cj.Namespace, cj.Name) \in Keys
       /\ LET last == lastWrite[Key(cj.Namespace, cj.Name)]
          IN /\ last # Nil
             /\ cj.Name = last[1].Name
             /\ cj.Namespace = PoolNamespace(last[1].Pool)
  /\ \A a, b \in cronjobs : (a.Name = b.Name /\ a.Namespace = b.Namespace) => a = b
  /\ \A c \in Callers :
       (Returned(c, "CreateJob") /\ err[c] = "") => ret[c] = JobOf(c).Name

\* Schedules of two pools exist, the second made by a CreateJob that returned
\* its name.
C9_Witness ==
  \E c \in Callers :
    /\ Returned(c, "CreateJob") /\ err[c] = "" /\ ret[c] = "foo"
    /\ \E a, b \in cronjobs : a.Namespace # b.Namespace

\* C10: a call submits the schedule only as its second orchestrator call, after
\* an identity provisioning that succeeded; when the provisioning fails the call
\* returns that error and submits nothing.
C10_IdentityFirst ==
  \A c \in Callers :
    /\ \A i \in DOMAIN log[c] :
         log[c][i].call \in ScheduleWrites
           => i = 2 /\ log[c][1] = Call("ensureServiceAccount", "")
    /\ (Returned(c, "CreateJob") \/ Returned(c, "UpdateJob"))
         => \A i \in DOMAIN log[c] :
              (log[c][i].call = "ensureServiceAccount" /\ log[c][i].err # "")
                => Len(log[c]) = 1 /\ err[c] = log[c][1].err

\* An UpdateJob of an existing schedule failed to provision the identity, and
\* the schedule is as CreateJob made it.
C10_Witness ==
  \E c \in Callers, cj \in cronjobs :
    /\ Returned(c, "UpdateJob") /\ err[c] = ErrIdentity
    /\ log[c] = <<Call("ensureServiceAccount", ErrIdentity)>>
    /\ cj.Name = JobOf(c).Name /\ cj.Schedule # JobOf(c).Schedule

\* The entries of an annotation map other than the manual marker.
OtherAnnotations(m) == [k \in DOMAIN m \ {ManualAnnotation} |-> m[k]]

\* The executions that TriggerCron calls have made.
ManualJobs == {j \in jobs : j.Name[2] = "manual-job"}

\* C11: a successful TriggerCron has made exactly one execution of the name it
\* built, with the namespace, labels, annotations (the manual marker apart) and
\* job spec of the schedule it fetched, and with one owner reference: the
\* schedule's name, its UID and the kind CronJob.
C11_TriggerCopies ==
  \A c \in Callers :
    (Returned(c, "TriggerCron") /\ err[c] = "") =>
      LET cj == cron[c][1]
          made == JobsGet(cronChild[c][1].Namespace, cronChild[c][1].Name)
      IN /\ Cardinality(made) = 1
         /\ \A j \in made :
              /\ j.Namespace = cj.Namespace
              /\ j.Labels = cj.Labels
              /\ OtherAnnotations(j.Annotations) = OtherAnnotations(cj.Annotations)
              /\ j.Spec = cj.JobTemplate
              /\ Len(j.OwnerReferences) = 1
              /\ j.OwnerReferences[1].Name = cj.Name
              /\ j.OwnerReferences[1].UID = cj.UID
              /\ j.OwnerReferences[1].Kind = "CronJob"

\* A TriggerCron of a schedule with a custom label and the identifier 1 has
\* made its execution.
C11_Witness ==
  \E c \in Callers, j \in jobs :
    /\ Returned(c, "TriggerCron") /\ err[c] = ""
    /\ j.Name = cronChild[c][1].Name
    /\ "team" \in DOMAIN j.Labels
    /\ j.OwnerReferences[1].UID = 1 /\ cron[c][1].UID = 1

\* C12: every execution made by TriggerCron carries the manual marker with the
\* value manual, and every execution TriggerCron builds keeps the schedule's
\* other annotations.
C12_ManualMarker ==
  /\ \A j \in ManualJobs :
       /\ ManualAnnotation \in DOMAIN j.Annotations
       /\ j.Annotations[ManualAnnotation] = "manual"
  /\ \A c \in Callers :
       cronChild[c] # Nil =>
         /\ cronChild[c][1].Annotations[ManualAnnotation] = "manual"
         /\ OtherAnnotations(cronChild[c][1].Annotations)
              = OtherAnnotations(cron[c][1].Annotations)

\* An execution was made from a schedule that had the marker key with another
\* value.
C12_Witness ==
  \E c \in Callers, j \in ManualJobs :
    /\ Returned(c, "TriggerCron") /\ err[c] = ""
    /\ j.Name = cronChild[c][1].Name
    /\ ManualAnnotation \in DOMAIN cron[c][1].Annotations
    /\ cron[c][1].Annotations[ManualAnnotation] = "auto"
    /\ j.Annotations[ManualAnnotation] = "manual"

\* The label map holds every platform-owned label of `job` with its value.
PlatformKept(labels, job) ==
  \A k \in DOMAIN JobLabels(job) : k \in DOMAIN labels /\ labels[k] = JobLabels(job)[k]

\* The label map holds every custom label of `job` whose key is not
\* platform-owned (the first one of each key) with its value.
CustomKept(labels, job) ==
  \A i \in DOMAIN job.Labels :
    (/\ job.Labels[i].Name \notin DOMAIN JobLabels(job)
     /\ \A h \in 1..(i - 1) : job.Labels[h].Name # job.Labels[i].Name)
      => /\ job.Labels[i].Name \in DOMAIN labels
         /\ labels[job.Labels[i].Name] = job.Labels[i].Value

\* The Job identity of the schedule `name` in namespace `ns`.
IdentityAt(ns, name) ==
  [Name |-> name, Pool |-> CHOOSE p \in Pools : PoolNamespace(p) = ns]

\* C20: every schedule resource, its pod template and every manual execution
\* and its pod template carry the platform-owned labels with the platform's
\* values; a custom label of a platform-owned key is dropped, any other custom
\* label is present with its value.
C20_PlatformLabelsWin ==
  /\ \A cj \in cronjobs :
       LET last == lastWrite[Key(cj.Namespace, cj.Name)]
       IN /\ last # Nil
          /\ PlatformKept(cj.Labels, last[1])
          /\ PlatformKept(cj.JobTemplate.Template.Labels, last[1])
          /\ CustomKept(cj.Labels, last[1])
          /\ CustomKept(cj.JobTemplate.Template.Labels, last[1])
  /\ \A j \in ManualJobs :
       /\ PlatformKept(j.Labels, IdentityAt(j.Namespace, j.OwnerReferences[1].Name))
       /\ PlatformKept(j.Spec.Template.Labels,
                       IdentityAt(j.Namespace, j.OwnerReferences[1].Name))

\* A schedule written from a Job with a custom label of a platform-owned key
\* has the platform's value, and so has an execution triggered from it.
C20_Witness ==
  \E cj \in cronjobs, j \in ManualJobs :
    /\ lastWrite[Key(cj.Namespace, cj.Name)] # Nil
    /\ \E i \in DOMAIN lastWrite[Key(cj.Namespace, cj.Name)][1].Labels :
         lastWrite[Key(cj.Namespace, cj.Name)][1].Labels[i] = KV(LabelJobName, "evil")
    /\ cj.Labels[LabelJobName] = cj.Name
    /\ j.OwnerReferences[1].UID = cj.UID
    /\ j.Labels[LabelJobName] = cj.Name

\* JobUnits has returned without an error.
UnitsReturned == unitsPc = "done" /\ unitsErr = ""

\* The pods of the execution a unit was built from, as the cluster holds them.
PodsOfUnit(i) ==
  {p \in pods : /\ p.Namespace = k8sJobs[i].Namespace
                /\ p.Labels[PodJobName] = k8sJobs[i].Name}

\* C13: the status of every unit follows from the counters of its execution
\* alone: Error when failed > 0, whatever succeeded is; else Succeeded when
\* succeeded > 0; else Started. No pod has a part in it.
C13_StatusFromCounters ==
  \A i \in DOMAIN units :
    LET counters == k8sJobs[i].Status
    IN /\ counters.Failed > 0 => units[i].Status = StatusError
       /\ (counters.Failed = 0 /\ counters.Succeeded > 0)
            => units[i].Status = StatusSucceeded
       /\ (counters.Failed = 0 /\ counters.Succeeded = 0)
            => units[i].Status = StatusStarted

\* A unit is Error for an execution that has failed and succeeded pods counted,
\* while a pod of that execution is not in phase Failed.
C13_Witness ==
  /\ UnitsReturned
  /\ \E i \in DOMAIN unitsRet :
       /\ k8sJobs[i].Status.Failed > 0 /\ k8sJobs[i].Status.Succeeded > 0
       /\ unitsRet[i].Status = StatusError
       /\ \E p \in PodsOfUnit(i) : p.Phase # "Failed"

\* The executions of the cluster that carry the identity labels of `job` in
\* the namespace of its pool.
ExecutionsOf(job) ==
  {j \in jobs : /\ j.Namespace = PoolNamespace(job.Pool)
                /\ \A k \in {LabelIsTsuru, LabelJobName, LabelJobPool} :
                     k \in DOMAIN j.Labels /\ j.Labels[k] = JobLabels(job)[k]}

\* C14: a JobUnits that returns no error returns one unit for each execution
\* that carries the job's identity labels in its namespace, with the
\* execution's name as ID and as name; with no such execution (as right after
\* CreateJob) the list is empty.
C14_OneUnitPerExecution ==
  UnitsReturned =>
    LET matching == ExecutionsOf(unitsJob[1])
    IN /\ Len(unitsRet) = Cardinality(matching)
       /\ {unitsRet[i].ID : i \in DOMAIN unitsRet} = {j.Name : j \in matching}
       /\ \A i \in DOMAIN unitsRet : unitsRet[i].Name = unitsRet[i].ID
       /\ matching = {} => unitsRet = <<>>

\* JobUnits returned two units from a cluster that holds four executions, one
\* of them of another Job in the same namespace.
C14_Witness ==
  /\ UnitsReturned
  /\ Len(unitsRet) = 2
  /\ Cardinality(jobs) = 4
  /\ \E j \in jobs : /\ j.Namespace = PoolNamespace(unitsJob[1].Pool)
                     /\ j.Labels[LabelJobName] # unitsJob[1].Name

\* C15: a JobUnits that returns an error returns no unit.
C15_NoPartialList ==
  (unitsPc = "done" /\ unitsErr # "") => unitsRet = <<>>

\* The pod listing of the second execution failed after the unit of the first
\* had been built.
C15_Witness ==
  /\ unitsPc = "done"
  /\ unitsErr = ErrTransport
  /\ Len(units) = 1
  /\ Len(k8sJobs) = 2
  /\ unitsRet = <<>>

\* C16: the restart count of a unit is the sum, over the pods labelled
\* job-name = <execution name> in the execution's namespace when they are
\* listed and over all their containers, of the containers' restart counts;
\* with no such pod it is 0.
C16_RestartsOfOwnPods ==
  [][Len(units') = Len(units) + 1 =>
       LET i == Len(units')
       IN /\ units'[i].Restarts = SumRestarts(PodsOfUnit(i))
          /\ PodsOfUnit(i) = {} => units'[i].Restarts = 0]_vars

\* A unit counts the restarts of both containers of its execution's pod.
C16_Witness ==
  /\ UnitsReturned
  /\ \E i \in DOMAIN unitsRet :
       /\ unitsRet[i].Restarts = 2
       /\ \E p \in PodsOfUnit(i) : Len(p.ContainerStatuses) = 2

\* createJobEvent is called in this step.
Bridged == stream' = stream + 1

\* The call of this step appends exactly one audit event to the log.
OneAudit == Len(audit') = Len(audit) + 1 /\ SubSeq(audit', 1, Len(audit)) = audit

\* C17: when event.New accepts the audit event, createJobEvent marks done
\* exactly one audit event of kind Run with no error for reason Completed, one
\* of kind Run with the error "job failed: <message>" for BackoffLimitExceeded
\* and one of kind Create with no error for SuccessfulCreate; for any other
\* reason it marks none.
C17_ReasonToAudit ==
  [][(Bridged /\ ~lastEvent'[1].rejected) =>
       LET evt == lastEvent'[1].evt
           e == audit'[Len(audit')]
       IN /\ evt.Reason = "Completed" =>
               OneAudit /\ e.Kind = PermJobRun /\ e.Error = Nil
          /\ evt.Reason = "BackoffLimitExceeded" =>
               /\ OneAudit /\ e.Kind = PermJobRun
               /\ e.Error = Ptr(<<"job failed: ">> \o evt.Message)
          /\ evt.Reason = "SuccessfulCreate" =>
               OneAudit /\ e.Kind = PermJobCreate /\ e.Error = Nil
          /\ evt.Reason \notin {"Completed", "BackoffLimitExceeded", "SuccessfulCreate"} =>
               audit' = audit]_vars

\* A Completed event and a BackoffLimitExceeded event have been bridged: the
\* log holds a Run without an error and a Run with one.
C17_Witness ==
  /\ Len(audit) = 2
  /\ audit[1].Kind = PermJobRun /\ audit[1].Error = Nil
  /\ audit[2].Kind = PermJobRun /\ audit[2].Error # Nil
  /\ lastEvent # Nil /\ lastEvent[1].evt.Reason = "BackoffLimitExceeded"

\* The owner references of kind CronJob of an execution.
CronJobOwners(job) ==
  {i \in DOMAIN job.OwnerReferences : job.OwnerReferences[i].Kind = "CronJob"}

\* The target, the permission context and the job-controller entry of an audit
\* event are all `name`.
AttributedTo(e, name) ==
  /\ e.Target.Value = name
  /\ \A i \in DOMAIN e.Allowed.Contexts : e.Allowed.Contexts[i].Value = name
  /\ e.Allowed.Contexts # <<>>
  /\ e.CustomData["job-controller"] = Ptr(name)

\* C18: the audit event of an execution with an owner reference of kind
\* CronJob named S has S as target value, as permission context and as
\* job-controller; the audit event of any other execution, one owned by an
\* object of another kind included, has the execution's own name there. The
\* job-name entry is the execution's own name in both cases.
C18_RealOwner ==
  [][(Bridged /\ Len(audit') = Len(audit) + 1) =>
       LET job == lastEvent'[1].job
           e == audit'[Len(audit')]
       IN /\ \A i \in CronJobOwners(job) : AttributedTo(e, <<job.OwnerReferences[i].Name>>)
          /\ CronJobOwners(job) = {} => AttributedTo(e, job.Name)
          /\ e.CustomData["job-name"] = Ptr(job.Name)]_vars

\* The log holds the audit event of an execution owned by a schedule and the
\* one of an execution owned by an object of another kind.
C18_Witness ==
  /\ Len(audit) = 2
  /\ audit[1].Target.Value = <<"mailer">>
  /\ audit[1].CustomData["job-name"] # Ptr(audit[1].Target.Value)
  /\ audit[2].Target.Value = SeedJobs[1].Name
  /\ lastEvent # Nil
  /\ lastEvent[1].job.OwnerReferences # <<>>
  /\ CronJobOwners(lastEvent[1].job) = {}

\* C19: when event.New fails, createJobEvent marks no audit event done; and in
\* every case it leaves the orchestrator's objects as they are.
C19_DroppedOnRejection ==
  [][Bridged =>
       /\ lastEvent'[1].rejected => audit' = audit
       /\ cluster' = cluster
       /\ pods' = pods]_vars

\* An event was accepted and the next one, of a reason that is bridged, was
\* rejected: the log holds the first only.
C19_Witness ==
  /\ stream = 2
  /\ Len(audit) = 1
  /\ lastEvent # Nil
  /\ lastEvent[1].rejected
  /\ lastEvent[1].evt.Reason = "Completed"
  /\ cronjobs # {}

\* C21: a compiled spec has the deadline 3600 when the Job's deadline is nil
\* or 0 and the Job's own deadline otherwise, its retention of finished
\* executions is 86400, and the specs of one Job compiled twice are equal.
C21_ActiveDeadline ==
  LET deadline == compileJob[1].ActiveDeadlineSeconds
  IN /\ \A i \in DOMAIN compiled :
          /\ (deadline = Nil \/ deadline = Ptr(0))
                => compiled[i].ActiveDeadlineSeconds = Ptr(3600)
          /\ (deadline # Nil /\ deadline # Ptr(0))
                => compiled[i].ActiveDeadlineSeconds = deadline
          /\ compiled[i].TTLSecondsAfterFinished = Ptr(86400)
     /\ \A i, k \in DOMAIN compiled : compiled[i] = compiled[k]

\* A Job with the deadline 0 has been compiled twice.
C21_Witness ==
  /\ Len(compiled) = 2
  /\ compileJob[1].ActiveDeadlineSeconds = Ptr(0)
  /\ compiled[2].ActiveDeadlineSeconds = Ptr(3600)

\* The places of `value` that hold a "$".
Dollars(value) == {i \in DOMAIN value : value[i] = "$"}

\* `escaped` is `value` with every "$" doubled: character i of `value` stands
\* at place i + (number of "$" before it), and a "$" is followed by another.
Doubled(value, escaped) ==
  /\ Len(escaped) = Len(value) + Cardinality(Dollars(value))
  /\ \A i \in DOMAIN value :
       LET at == i + Cardinality({h \in Dollars(value) : h < i})
       IN /\ escaped[at] = value[i]
          /\ value[i] = "$" => escaped[at + 1] = "$"

\* C22: the env list of the compiled container holds the user-defined
\* variables and then the service-injected ones, in their order and under
\* their names, each value with every "$" doubled; a value without "$" is
\* the source value.
C22_EnvEscaping ==
  \A c \in DOMAIN compiled :
    LET env == compiled[c].Template.Containers[1].Env
        source == compileJob[1].Envs \o compileJob[1].ServiceEnvs
    IN /\ Len(env) = Len(source)
       /\ \A i \in DOMAIN source :
            /\ env[i].Name = source[i].Name
            /\ Doubled(source[i].Value, env[i].Value)
            /\ Dollars(source[i].Value) = {} => env[i].Value = source[i].Value

\* A Job with two user-defined variables, one with two "$" and one without
\* any, and with service-injected variables has been compiled.
C22_Witness ==
  /\ compiled # <<>>
  /\ Len(compileJob[1].Envs) = 2
  /\ compileJob[1].Envs[1].Value = <<"$", "$">>
  /\ compileJob[1].Envs[2].Value = <<"a">>
  /\ Len(compileJob[1].ServiceEnvs) = 2
  /\ compiled[1].Template.Containers[1].Env[1].Value = <<"$", "$", "$", "$">>
  /\ compiled[1].Template.Containers[1].Env[3].Name = "DB"

\* Caller c takes a step of DestroyJob.
Destroying(c) ==
  \/ pc[c] = "idle" /\ calls' = calls + 1 /\ op'[c] = "DestroyJob"
  \/ pc[c] = "DestroyJob_cronjob" /\ pc'[c] # "DestroyJob_cronjob"

\* C23: a step of DestroyJob leaves every execution and every pod as it is;
\* what it removes is the identity object and the schedule resource of its
\* Job, and nothing else. It takes its steps whatever the executions do.
C23_DestroyLeavesExecutions ==
  [][\A c \in Callers :
       Destroying(c) =>
         LET job == arg'[c][1]
             ns == PoolNamespace(job.Pool)
         IN /\ jobs' = jobs
            /\ pods' = pods
            /\ cronjobs' \subseteq cronjobs
            /\ serviceAccounts' \subseteq serviceAccounts
            /\ \A cj \in cronjobs \ cronjobs' : cj.Namespace = ns /\ cj.Name = job.Name
            /\ \A sa \in serviceAccounts \ serviceAccounts' :
                 sa.Namespace = ns /\ sa.Name = serviceAccountNameForJob(job)]_vars

\* DestroyJob has returned without an error and its schedule is gone, while
\* an execution of that schedule has counted no pod yet and has a running pod.
C23_Witness ==
  \E c \in Callers :
    /\ Returned(c, "DestroyJob") /\ err[c] = ""
    /\ CronJobsGet(PoolNamespace(arg[c][1].Pool), arg[c][1].Name) = {}
    /\ \E j \in jobs, p \in pods :
         /\ j.Namespace = PoolNamespace(arg[c][1].Pool)
         /\ j.OwnerReferences[1].Name = arg[c][1].Name
         /\ j.Status = JobStatusZero
         /\ p.Namespace = j.Namespace /\ p.Labels[PodJobName] = j.Name
         /\ p.Phase = "Running"

\* The last orchestrator call caller c has made, after this step.
LastCall(c) == log'[c][Len(log'[c])]

\* C24: a DestroyJob that comes to its schedule delete when the schedule does
\* not exist returns the error of that delete, which is the orchestrator's
\* not-found unless the call itself failed: the not-found of the schedule is
\* not tolerated as the one of the identity is.
C24_DestroyNotIdempotent ==
  [][\A c \in Callers :
       (/\ pc[c] = "DestroyJob_cronjob"
        /\ pc'[c] = "idle"
        /\ CronJobsGet(PoolNamespace(arg[c][1].Pool), arg[c][1].Name) = {})
       => /\ LastCall(c).call = "CronJobs.Delete"
          /\ err'[c] = LastCall(c).err
          /\ err'[c] # ""
          /\ LastCall(c).err # ErrTransport => err'[c] = ErrNotFound]_vars

\* Two DestroyJob calls of one Job have returned: one without an error, the
\* other, which found neither the identity nor the schedule, with not-found.
C24_Witness ==
  \E c, d \in Callers :
    /\ Returned(c, "DestroyJob") /\ Returned(d, "DestroyJob")
    /\ arg[c] = arg[d]
    /\ err[c] = ""
    /\ err[d] = ErrNotFound
    /\ log[d] = <<Call("ServiceAccounts.Delete", ErrNotFound),
                  Call("CronJobs.Delete", ErrNotFound)>>

\* Caller c starts a call in this step.
Begins(c) ==
  /\ pc[c] = "idle"
  /\ calls' = calls + 1
  /\ unitsPc' = unitsPc
  /\ op'[c] # "none"

\* C25: a TriggerCron of a schedule that does not exist in the namespace of
\* the pool returns at its fetch, with the orchestrator's not-found when the
\* fetch was answered, and no execution is created.
C25_TriggerMissing ==
  [][\A c \in Callers :
       (/\ Begins(c)
        /\ op'[c] = "TriggerCron"
        /\ CronJobsGet(PoolNamespace(arg'[c][1].Pool), arg'[c][1].Name) = {})
       => /\ pc'[c] = "idle"
          /\ jobs' = jobs
          /\ cron'[c] = Nil
          /\ err'[c] # ""
          /\ \A i \in DOMAIN log'[c] : log'[c][i].call = "CronJobs.Get"
          /\ (log'[c] # <<>> /\ log'[c][1].err = ErrNotFound) => err'[c] = ErrNotFound
          /\ err'[c] \in {ErrNotFound, ErrTransport, ErrCluster}]_vars

\* A TriggerCron has returned not-found from its fetch while the cluster
\* holds a schedule of another name.
C25_Witness ==
  \E c \in Callers :
    /\ Returned(c, "TriggerCron")
    /\ err[c] = ErrNotFound
    /\ log[c] = <<Call("CronJobs.Get", ErrNotFound)>>
    /\ cronjobs # {}
    /\ jobs = {}

\* C26: a call of CreateJob, UpdateJob, TriggerCron or DestroyJob returns
\* without any orchestrator call exactly when clusterForPool failed, with that
\* error, and the orchestrator's objects are as before; a JobUnits whose
\* clusterForPool failed returns that error, no unit and has listed nothing.
C26_ClusterForPool ==
  [][/\ \A c \in Callers :
          Begins(c) =>
            /\ (pc'[c] = "idle" /\ log'[c] = <<>>) <=> err'[c] = ErrCluster
            /\ err'[c] = ErrCluster => cluster' = cluster
     /\ \A c \in Callers : (err'[c] = ErrCluster /\ err[c] # ErrCluster) => Begins(c)
     /\ (unitsPc = "idle" /\ unitsPc' # "idle" /\ unitsErr' = ErrCluster)
          => /\ cluster' = cluster
             /\ unitsRet' = <<>>
             /\ k8sJobs' = <<>>
             /\ unitsPc' = "done"]_vars

\* An UpdateJob has returned the error of clusterForPool, having called the
\* orchestrator not once, while the cluster holds the schedule.
C26_Witness ==
  \E c \in Callers :
    /\ Returned(c, "UpdateJob")
    /\ err[c] = ErrCluster
    /\ log[c] = <<>>
    /\ CronJobsGet(PoolNamespace(arg[c][1].Pool), arg[c][1].Name) # {}

\* C27: the execution a TriggerCron creates is the one built from the schedule
\* as it was fetched, whatever has become of the schedule since: Jobs.Create
\* is made without another look at the schedule.
C27_TriggerSnapshot ==
  [][\A c \in Callers :
       (pc[c] = "TriggerCron_submit" /\ pc'[c] = "idle" /\ err'[c] = "")
       => /\ Cardinality(jobs' \ jobs) = 1
          /\ \A j \in jobs' \ jobs :
               /\ j.Spec = cron[c][1].JobTemplate
               /\ j.Labels = cron[c][1].Labels
               /\ OtherAnnotations(j.Annotations) = OtherAnnotations(cron[c][1].Annotations)
               /\ j.OwnerReferences[1].UID = cron[c][1].UID
               /\ j.OwnerReferences[1].Name = cron[c][1].Name]_vars

\* A TriggerCron has created its execution after a DestroyJob of the same Job,
\* started after the fetch, had deleted the schedule: the owner of the
\* execution does not exist.
C27_Witness ==
  \E c, d \in Callers, j \in jobs :
    /\ Returned(c, "TriggerCron") /\ err[c] = ""
    /\ Returned(d, "DestroyJob") /\ err[d] = ""
    /\ arg[d][1].Name = arg[c][1].Name /\ arg[d][1].Pool = arg[c][1].Pool
    /\ j.Name = cronChild[c][1].Name
    /\ j.OwnerReferences[1].UID = cron[c][1].UID
    /\ \A cj \in cronjobs : cj.UID # j.OwnerReferences[1].UID

\* The manual executions of the schedule of `job`.
TriggeredOf(job) ==
  {j \in ManualJobs : /\ j.Namespace = PoolNamespace(job.Pool)
                      /\ j.OwnerReferences[1].Name = job.Name}

\* C28: a JobUnits(J) whose listing succeeds lists every execution that
\* TriggerCron has made of J's schedule and that the cluster holds, and when
\* it returns without an error it returns a unit with the name of each
\* listed execution as ID.
C28_TriggeredVisible ==
  [][/\ (unitsPc = "idle" /\ unitsPc' # "idle" /\ unitsErr' = "")
          => \A j \in TriggeredOf(unitsJob'[1]) :
               \E i \in DOMAIN k8sJobs' : k8sJobs'[i].Name = j.Name
     /\ (unitsPc # "done" /\ unitsPc' = "done" /\ unitsErr' = "")
          => \A i \in DOMAIN k8sJobs' :
               \E u \in DOMAIN unitsRet' : unitsRet'[u].ID = k8sJobs'[i].Name]_vars

\* A JobUnits has returned a unit for the execution a TriggerCron made.
C28_Witness ==
  /\ UnitsReturned
  /\ \E c \in Callers, u \in DOMAIN unitsRet :
       /\ Returned(c, "TriggerCron") /\ err[c] = ""
       /\ arg[c][1].Name = unitsJob[1].Name /\ arg[c][1].Pool = unitsJob[1].Pool
       /\ unitsRet[u].ID = cronChild[c][1].Name

\* Shutdown returns in this step, with error e.
ShutdownReturns(e) ==
  /\ shutdownPc # "returned"
  /\ shutdownPc' = "returned"
  /\ shutdownErr' = e

\* C29 as stated: Shutdown returns nil only after run has exited and closed
\* the done channel, and once the quit channel is closed the run loop
\* receives no event.
C29_NoEventAfterShutdown ==
  [][/\ ShutdownReturns("") => (runPc = "exited" /\ doneCh = "closed")
     /\ quitCh = "closed" => ~(runPc = "select" /\ runPc' = "gauge")]_vars

\* C29, amended: Shutdown closes the quit channel; it returns nil only after
\* run has exited and closed the done channel, and the context's error only
\* when the context has ended; once run has exited it receives and handles
\* nothing, whatever is queued; and after Shutdown run exits sooner or later.
C29_Shutdown ==
  /\ [][/\ (shutdownPc = "idle" /\ shutdownPc' # "idle") => quitCh' = "closed"
        /\ quitCh' = "closed" => shutdownPc' # "idle"
        /\ ShutdownReturns("") => (runPc = "exited" /\ doneCh = "closed")
        /\ ShutdownReturns(ErrContext) => ctxDone
        /\ doneCh' = "closed" <=> runPc' = "exited"
        /\ runPc' = "exited" => quitCh' = "closed"
        /\ runPc = "exited"
             => /\ runPc' = "exited"
                /\ handled' = handled
                /\ evtID' = evtID
                /\ Len(evtCh') >= Len(evtCh)]_vars
  /\ quitCh = "closed" ~> runPc = "exited"

\* Shutdown has returned nil, run has exited and events are still queued.
C29_Witness ==
  /\ shutdownPc = "returned"
  /\ shutdownErr = ""
  /\ runPc = "exited"
  /\ evtCh # <<>>
  /\ handled # <<>>

\* How many times the event id is in the channel, with the run loop or
\* among the handled events.
Occurrences(id) ==
  Cardinality({i \in DOMAIN evtCh : evtCh[i] = id})
  + Cardinality({i \in DOMAIN handled : handled[i] = id})
  + (IF evtID = Ptr(id) THEN 1 ELSE 0)

\* Notify call n is at its select and no case of it is ready.
Blocked(n) ==
  /\ notifyPc[n] = "select"
  /\ ~ENABLED (NotifySend(n) \/ NotifyQuit(n))

\* C30: a Notify at its select is blocked exactly while the buffer holds
\* chanBufferSize events and the quit channel is open; an event passed to
\* Notify is nowhere before the select, and after it once in the channel if
\* the send was taken and nowhere if the quit case was, and never more than
\* once anywhere; and once the quit channel is closed every Notify returns.
C30_Notify ==
  /\ [](\A n \in Notifiers :
          notifyPc[n] = "select"
            => /\ Blocked(n) <=> (Len(evtCh) = chanBufferSize /\ quitCh = "open")
               /\ Occurrences(notifyEvt[n][1]) = 0)
  /\ [](\A k \in 1..notified : Occurrences(EventID(k)) <= 1)
  /\ [][\A n \in Notifiers :
          (notifyPc[n] = "select" /\ notifyPc'[n] = "gauge")
            => \/ /\ evtCh' = Append(evtCh, notifyEvt[n][1])
                  /\ Len(evtCh) < chanBufferSize
               \/ /\ evtCh' = evtCh
                  /\ quitCh = "closed"]_vars
  /\ \A n \in Notifiers :
       (quitCh = "closed" /\ notifyPc[n] # "idle") ~> notifyPc[n] = "idle"

\* The buffer is full, the quit channel closed and every Notify has
\* returned: one event was enqueued and another, whose Notify found the
\* buffer full, was dropped.
C30_Witness ==
  /\ quitCh = "closed"
  /\ Len(evtCh) = chanBufferSize
  /\ \A n \in Notifiers : notifyPc[n] = "idle"
  /\ \E k \in 1..notified : Occurrences(EventID(k)) = 0
  /\ \E k \in 1..notified : Occurrences(EventID(k)) = 1

\* The events in the order the service holds them: those handled, the one
\* the run loop has received, those in the channel.
Order == handled \o evtID \o evtCh

\* The hooks doHook has been called with for the event, in order, after this
\* step.
HooksCalled(evt) ==
  LET made == SelectSeq(hookCalls', LAMBDA call : call.evt = evt)
  IN [i \in DOMAIN made |-> made[i].hook[1]]

\* C31: only the run loop takes events from the channel, the first one, and
\* only when it holds none; Notify adds at the end, so events are handled in
\* the order they were enqueued, and none twice; an error of handleEvent or
\* of a hook is logged; the loop goes back to its select after every event,
\* with doHook called for every hook found, and exits through the quit case
\* alone.
C31_RunLoop ==
  /\ [](\A i, j \in DOMAIN handled : handled[i] = handled[j] => i = j)
  /\ [][/\ \/ Order' = Order
           \/ \E n \in Notifiers :
                notifyPc[n] = "select" /\ Order' = Append(Order, notifyEvt[n][1])
        /\ Len(evtCh') < Len(evtCh)
             => /\ runPc = "select" /\ evtID = Nil
                /\ evtID' = Ptr(Head(evtCh)) /\ evtCh' = Tail(evtCh)
        /\ handled' # handled
             => /\ handled' = Append(handled, evtID[1])
                /\ runPc' = "select"
                /\ HooksCalled(evtID[1]) = hooks
                /\ runPc = "handle" => (hooks = <<>> /\ hookCalls' = hookCalls)
        /\ (runPc = "handle" /\ handled' # handled /\ errorLog' # errorLog)
             => \E e \in {ErrEvent, ErrStorage} :
                  errorLog' = Append(errorLog, LogLine(evtID[1], Nil, e))
        /\ hookCalls' # hookCalls
             => \E e \in {"", ErrHook} :
                  LET call == LogLine(evtID[1], Ptr(hooks[Len(CallsFor(evtID[1])) + 1]), e)
                  IN /\ hookCalls' = Append(hookCalls, call)
                     /\ errorLog' = IF e # "" THEN Append(errorLog, call) ELSE errorLog
        /\ (runPc' = "exited" /\ runPc # "exited")
             => (runPc = "select" /\ quitCh = "closed")]_vars

\* Two events have been handled in the order they were queued: handleEvent
\* failed for the first, and of the two hooks of the second the first failed
\* and the second was called; both errors are in the log and the loop is at
\* its select.
C31_Witness ==
  /\ runPc = "select"
  /\ Len(handled) = 2
  /\ handled = Backlog(2)
  /\ errorLog = <<LogLine(1, Nil, ErrEvent), LogLine(2, Ptr("h1"), ErrHook)>>
  /\ hookCalls = <<LogLine(2, Ptr("h1"), ErrHook), LogLine(2, Ptr("h2"), "")>>

====
